---- MODULE Spec2Model ----
(***************************************************************************)
(* Incremental fetch-range reconciliation, chunked fetch and record merge  *)
(* of data-ingestion/main.py.                                              *)
(*                                                                         *)
(* A datetime is modelled by its day number (days since 1970-01-01); a     *)
(* formatted date string by the triple of its numeric fields.              *)
(***************************************************************************)
EXTENDS Integers, Sequences, FiniteSets, TLC

\* ------------------------------------------------------------------ bounds
\* Width of the date domain of the inputs of calculate_missing_ranges.
CalcSpan == 5

\* Longest record list held by a file at the start of a merge.
MaxRecs == 2

\* Number of times the same chunk is fetched and merged in a row.
MaxRuns == 2

\* Longest range, in days past start_date, given to fetch_stock_prices_by_dates.
MaxSpan == 740

\* Number of upsert_stock_price calls made on a connection.
MaxUpserts == 4

\* Number of update_or_create_symbol_entry calls made on a metadata list.
MaxUpdates == 2

\* Longest list held by symbol_metadata.json.
MaxEntries == 2

\* ------------------------------------------------------- program constants
\* DEFAULT_EARLIEST_DATE = "2015-01-01", as a day number.
DEFAULT_EARLIEST_DATE == 16436

\* one_year = timedelta(days=365)
one_year == 365

\* timedelta(days=1)
one_day == 1

\* Python's None for an absent datetime.
None == -1

\* ------------------------------------------------------------ date helpers
Min2(a, b) == IF a <= b THEN a ELSE b

Max2(a, b) == IF a >= b THEN a ELSE b

\* datetime.strftime: the civil (year, month, day) of a day number, by
\* 400-year era, day of era, year of era, day of year (from 1 March) and
\* month (from March).
CivilOfMonth(y0, doy, mp) ==
    [year |-> y0 + (IF mp < 10 THEN 0 ELSE 1),
     month |-> IF mp < 10 THEN mp + 3 ELSE mp - 9,
     day |-> doy - ((153 * mp + 2) \div 5) + 1]

CivilOfDayOfYear(y0, doy) == CivilOfMonth(y0, doy, (5 * doy + 2) \div 153)

CivilOfYearOfEra(era, doe, yoe) ==
    CivilOfDayOfYear(yoe + era * 400,
                     doe - (365 * yoe + (yoe \div 4) - (yoe \div 100)))

CivilOfDayOfEra(era, doe) ==
    CivilOfYearOfEra(era, doe,
        (doe - (doe \div 1460) + (doe \div 36524) - (doe \div 146096)) \div 365)

CivilFromDays(z) ==
    CivilOfDayOfEra((z + 719468) \div 146097, (z + 719468) % 146097)

\* datetime.strptime: the day number of a civil (year, month, day).
DaysFromCivil(y, m, d) ==
    LET yy  == IF m <= 2 THEN y - 1 ELSE y
        era == yy \div 400
        yoe == yy - era * 400
        mp  == IF m > 2 THEN m - 3 ELSE m + 9
        doy == ((153 * mp + 2) \div 5) + d - 1
        doe == yoe * 365 + (yoe \div 4) - (yoe \div 100) + doy
    IN  era * 146097 + doe - 719468

\* format_date_dmy: 'DD-MM-YYYY', the fields in day, month, year order.
format_date_dmy(date_obj) ==
    LET c == CivilFromDays(date_obj)
    IN  <<c.day, c.month, c.year>>

\* parse_date_dmy on a well-formed 'DD-MM-YYYY' string.
parse_date_dmy(date_str) == DaysFromCivil(date_str[3], date_str[2], date_str[1])


\* A value handed to strptime: a string (its 'YYYY-MM-DD' fields, <<>> for
\* the empty string, <<0>> for text that does not match the format) or a
\* value that is no string (a datetime, a JSON number).
Str(y, m, d) == [type |-> "str", ymd |-> <<y, m, d>>]

EmptyStr == [type |-> "str", ymd |-> <<>>]

BadStr == [type |-> "str", ymd |-> <<0>>]

NotAStr == [type |-> "other", ymd |-> <<>>]

\* Python's None where a string is expected: a key that is missing.
NoneStr == [type |-> "none", ymd |-> <<>>]

\* strftime(DATE_FMT)
format_date_ymd(date_obj) ==
    LET c == CivilFromDays(date_obj)
    IN  Str(c.year, c.month, c.day)

\* The fields name a day of the calendar.
IsCalendarDate(ymd) ==
    /\ Len(ymd) = 3
    /\ ymd[2] \in 1 .. 12
    /\ ymd[3] \in 1 .. 31
    /\ LET c == CivilFromDays(DaysFromCivil(ymd[1], ymd[2], ymd[3]))
       IN  <<c.year, c.month, c.day>> = ymd

\* datetime.strptime(x, DATE_FMT): the date, or the exception raised.
strptime_ymd(x) ==
    IF x.type # "str" THEN [raised |-> "TypeError", value |-> None]
    ELSE IF ~IsCalendarDate(x.ymd) THEN [raised |-> "ValueError", value |-> None]
    ELSE [raised |-> "no", value |-> DaysFromCivil(x.ymd[1], x.ymd[2], x.ymd[3])]

\* get_date_or_default: ValueError and TypeError of the first parse are
\* caught; the parse of the fallback is not guarded.
get_date_or_default(date_str, fallback) ==
    IF strptime_ymd(date_str).raised = "no"
    THEN strptime_ymd(date_str)
    ELSE strptime_ymd(fallback)

\* Truthiness of a metadata value: an empty string and None are falsy.
Truthy(x) == x \notin {EmptyStr, NoneStr}

\* --------------------------------------------------------- JSON and files
\* A price record is a JSON object: its (field, value) pairs in the order
\* the text gives them.
FieldRank(k) ==
    CASE k = "CH_CLOSING_PRICE" -> 1
      [] k = "CH_TIMESTAMP" -> 2

\* The pairs of a record, inserted one by one in field order.
RECURSIVE SortedPairs(_)
SortedPairs(entry) ==
    IF entry = <<>> THEN <<>>
    ELSE LET rest == SortedPairs(Tail(entry))
             lo == SelectSeq(rest, LAMBDA q : FieldRank(q[1]) < FieldRank(Head(entry)[1]))
             hi == SelectSeq(rest, LAMBDA q : FieldRank(q[1]) >= FieldRank(Head(entry)[1]))
         IN  lo \o <<Head(entry)>> \o hi

\* json.dumps(entry, sort_keys=True)
json_dumps_sorted(entry) == SortedPairs(entry)

\* A record as a Python dict: equal dicts hold the same pairs.
AsDict(entry) == {entry[i] : i \in 1 .. Len(entry)}

\* The dicts held by a list of records.
DictsOf(data) == {AsDict(data[i]) : i \in 1 .. Len(data)}

\* File contents: no file, text that is not JSON, a JSON array of records,
\* a {"data": [...]} object, a JSON object without a "data" key.
Absent == [kind |-> "absent", items |-> <<>>]

InvalidJson == [kind |-> "invalid", items |-> <<>>]

JsonObject == [kind |-> "object", items |-> <<>>]

JsonList(data) == [kind |-> "list", items |-> data]

JsonWrapped(data) == [kind |-> "wrapped", items |-> data]

\* json.load and the unwrapping of a "data" key: the loaded value is a list
\* (invalid JSON leaves the initial []) or stays a dict.
LoadData(file) ==
    [is_list |-> file.kind # "object",
     items |-> IF file.kind \in {"list", "wrapped"} THEN file.items ELSE <<>>]

\* list({keys[i]: combined[i] for i}.values()): a key keeps the position of
\* its first entry and the value of its last.
DictValues(combined, keys) ==
    LET n == Len(combined)
        firsts == SelectSeq([i \in 1 .. n |-> i],
                            LAMBDA i : \A j \in 1 .. (i - 1) : keys[j] # keys[i])
        last_of(i) == CHOOSE j \in 1 .. n :
                        /\ keys[j] = keys[i]
                        /\ \A k \in (j + 1) .. n : keys[k] # keys[i]
    IN  [x \in 1 .. Len(firsts) |-> combined[last_of(firsts[x])]]

\* Mutant: the dedup key is the record's text as given, keys not sorted.
DedupUnsorted(combined) == DictValues(combined, combined)

\* Mutant: the new records are appended, nothing is collapsed.
DedupNothing(combined) == combined

\* The trade date of a record.
TradeDate(entry) ==
    entry[CHOOSE i \in 1 .. Len(entry) : entry[i][1] = "CH_TIMESTAMP"][2]

\* Mutant: the dedup key is the natural key, the record's trade date.
DedupByTradeDate(combined) ==
    DictValues(combined,
               [i \in 1 .. Len(combined) |-> TradeDate(combined[i])])

\* Deduplicate by JSON string with sorted keys.
Dedup(combined) ==
    DictValues(combined,
               [i \in 1 .. Len(combined) |-> json_dumps_sorted(combined[i])])

\* Mutant: the persisted records are dropped, only the new ones are kept.
merge_json_data_new_only(existing_file, new_file) ==
    LET existing_data == LoadData(existing_file)
        new_data == LoadData(new_file)
    IN  IF new_file.kind = "absent"
           \/ ~existing_data.is_list \/ ~new_data.is_list
        THEN [raised |-> TRUE, data |-> <<>>]
        ELSE [raised |-> FALSE, data |-> Dedup(new_data.items)]

\* merge_json_data: the combined list, or raised when a loaded value is no
\* list (list + dict is a TypeError) or new_file cannot be opened.
merge_json_data(existing_file, new_file) ==
    LET existing_data == LoadData(existing_file)
        new_data == LoadData(new_file)
    IN  IF new_file.kind = "absent"
           \/ ~existing_data.is_list \/ ~new_data.is_list
        THEN [raised |-> TRUE, data |-> <<>>]
        ELSE [raised |-> FALSE,
              data |-> Dedup(existing_data.items \o new_data.items)]

\* ------------------------------------------------ calculate_missing_ranges
\* Mutant: the right gap is emitted before the left gap.
calculate_missing_ranges_right_first(es, ee, fs, fe) ==
    IF fs = None \/ fe = None
    THEN << <<es, ee>> >>
    ELSE (IF ee > fe THEN << <<fe + one_day, ee>> >> ELSE <<>>)
         \o (IF es < fs THEN << <<es, fs - one_day>> >> ELSE <<>>)

\* Mutant: the left gap runs up to fetched_start itself.
calculate_missing_ranges_overlap(es, ee, fs, fe) ==
    IF fs = None \/ fe = None
    THEN << <<es, ee>> >>
    ELSE (IF es < fs THEN << <<es, fs>> >> ELSE <<>>)
         \o (IF ee > fe THEN << <<fe + one_day, ee>> >> ELSE <<>>)

\* Mutant: the gaps are cut to the window, as its difference with the
\* coverage.
calculate_missing_ranges_clipped(es, ee, fs, fe) ==
    IF fs = None \/ fe = None
    THEN << <<es, ee>> >>
    ELSE (IF es < fs THEN << <<es, Min2(ee, fs - one_day)>> >> ELSE <<>>)
         \o (IF ee > fe THEN << <<Max2(es, fe + one_day), ee>> >> ELSE <<>>)

\* Mutant: "no existing data" only when both ends are absent.
calculate_missing_ranges_and(es, ee, fs, fe) ==
    IF fs = None /\ fe = None
    THEN << <<es, ee>> >>
    ELSE (IF es < fs THEN << <<es, fs - one_day>> >> ELSE <<>>)
         \o (IF ee > fe THEN << <<fe + one_day, ee>> >> ELSE <<>>)

calculate_missing_ranges(es, ee, fs, fe) ==
    IF fs = None \/ fe = None
    THEN << <<es, ee>> >>
    ELSE (IF es < fs THEN << <<es, fs - one_day>> >> ELSE <<>>)
         \o (IF ee > fe THEN << <<fe + one_day, ee>> >> ELSE <<>>)

\* The dates of an inclusive range (empty when it is reversed).
DatesOf(r) == r[1] .. r[2]

\* The dates of a list of ranges.
Covered(ranges) == UNION {DatesOf(ranges[i]) : i \in 1 .. Len(ranges)}

\* ---------------------------------------------------------------- state
VARIABLES
    pc,               \* control position
    effective_start,  \* calculate_missing_ranges: arguments
    effective_end,
    fetched_start,
    fetched_end,
    ranges_to_fetch,  \* calculate_missing_ranges: result
    symbol,           \* fetch_stock_prices_by_dates: arguments
    start_date,
    end_date,
    current_date,     \* fetch_stock_prices_by_dates: loop variable
    requests,         \* the fetch commands run so far, in order
    out_file,         \* contents of each symbol's output_path
    tmp_file,         \* contents of each symbol's output_path + ".tmp"
    failed_chunks,    \* the chunks whose fetch or merge failed, in order
    payload,          \* what the provider answers for the re-fetched chunk
    merge_log,        \* the merges done so far: existing, new, result
    stock_names,      \* fetch_stock_prices_step: arguments and locals
    price_settings,
    today,
    metadata_dict,
    from_date,
    to_date,
    sym_i,            \* position of the for loop over stock_names
    range_i,          \* position of the for loop over ranges_to_fetch
    processed_count,
    error_count,
    symbol_log,       \* per symbol visited: its window, coverage and outcome
    stock_prices,     \* data_ingest: the rows of table stock_prices
    conn_status,      \* data_ingest: the connection's transaction status
    upsert_log,       \* the upsert_stock_price calls made so far, in order
    metadata,         \* populate_stock_metadata: the metadata list
    update_log,       \* the update_or_create_symbol_entry calls, in order
    metadata_file,    \* contents of symbol_metadata.json
    config,           \* main: price_fetch_settings of config.json as loaded
    stocks,           \* data_ingest: the rows of table stocks
    batch,            \* data_ingest: the records given to the last ingest call
    config_file,      \* main: configs/config.json as found on disk
    index_list,       \* contents of the stock list file (the index list)
    transformed_list, \* contents of transformed_stock_list.json
    stages,           \* main: the stages started so far, with their outcome
    run,              \* the number of the run of main under way
    fetched_ok        \* per symbol, the ranges of the chunks fetched and merged

calc_vars == <<effective_start, effective_end, fetched_start, fetched_end,
               ranges_to_fetch>>

chunk_vars == <<symbol, start_date, end_date, current_date, requests,
                failed_chunks>>

file_vars == <<out_file, tmp_file>>

merge_vars == <<payload, merge_log>>

step_vars == <<stock_names, price_settings, today, metadata_dict, from_date,
               to_date, sym_i, range_i, processed_count, error_count,
               symbol_log>>

db_vars == <<stock_prices, conn_status, upsert_log, stocks, batch>>

pop_vars == <<metadata, update_log>>

\* The state of the stages around the price fetch.
main_vars == <<config_file, index_list, transformed_list, stages, run,
               fetched_ok>>

stage_vars == <<db_vars, pop_vars, metadata_file, config, main_vars>>

\* The state of the price fetch.
fetch_vars == <<calc_vars, chunk_vars, file_vars, merge_vars, step_vars>>

vars == <<pc, fetch_vars, stage_vars>>

Symbols == {"TCS", "INFY"}

\* The price records the files and the provider's answers are built from:
\* one record, the same record with its fields in the other order, a record
\* of the same trade date with another price, a record of another date.
Rec(ts, close) == << <<"CH_TIMESTAMP", ts>>, <<"CH_CLOSING_PRICE", close>> >>

RecSwapped(ts, close) == << <<"CH_CLOSING_PRICE", close>>, <<"CH_TIMESTAMP", ts>> >>

Records == {Rec(1, 10), RecSwapped(1, 10), Rec(1, 11), Rec(2, 10)}

\* The record lists of at most n records.
RecordLists(n) == UNION {[1 .. k -> Records] : k \in 0 .. n}

\* The calculate_missing_ranges variables while it is not running.
CalcIdle ==
    /\ effective_start = None
    /\ effective_end = None
    /\ fetched_start = None
    /\ fetched_end = None
    /\ ranges_to_fetch = <<>>

\* The chunk loop's variables while it is not running.
ChunkIdle ==
    /\ symbol = "TCS"
    /\ start_date = None
    /\ end_date = None
    /\ current_date = None
    /\ requests = <<>>
    /\ failed_chunks = <<>>

FilesIdle ==
    /\ out_file = [s \in Symbols |-> Absent]
    /\ tmp_file = [s \in Symbols |-> Absent]

MergeIdle ==
    /\ payload = Absent
    /\ merge_log = <<>>

NoMetadata ==
    [present |-> FALSE, listing_date |-> EmptyStr, start_date |-> EmptyStr,
     end_date |-> EmptyStr]

\* The key is not in price_fetch_settings.
NoConfigDates == [from_date |-> NoneStr, to_date |-> NoneStr]

\* No ingest call was made.
NoBatch == [kind |-> "none", stock_id |-> 0, data |-> <<>>]

\* The config file is not looked at.
NoConfigFile == [kind |-> "absent", keys |-> {}]

\* main is not running.
MainIdle ==
    /\ config_file = NoConfigFile
    /\ index_list = Absent
    /\ transformed_list = Absent
    /\ stages = <<>>
    /\ run = 0
    /\ fetched_ok = [s \in Symbols |-> {}]

\* Empty tables, a fresh connection.
DbIdle ==
    /\ stock_prices = <<>>
    /\ conn_status = "ready"
    /\ upsert_log = <<>>
    /\ stocks = <<>>
    /\ batch = NoBatch

\* The stages around the price fetch while they are not running.
StagesIdle ==
    /\ DbIdle
    /\ MainIdle
    /\ metadata = <<>>
    /\ update_log = <<>>
    /\ metadata_file = Absent
    /\ config = NoConfigDates

\* The fetch_stock_prices_step variables while it is not running.
StepIdle ==
    /\ stock_names = <<>>
    /\ price_settings = [from_date |-> EmptyStr, to_date |-> EmptyStr]
    /\ today = None
    /\ metadata_dict = [s \in Symbols |-> NoMetadata]
    /\ from_date = None
    /\ to_date = None
    /\ sym_i = 0
    /\ range_i = 0
    /\ processed_count = 0
    /\ error_count = 0
    /\ symbol_log = <<>>

\* ------------------------------------- calculate_missing_ranges on its own
CalcDates == DEFAULT_EARLIEST_DATE .. (DEFAULT_EARLIEST_DATE + CalcSpan)

InitCalc ==
    /\ pc = "calc"
    /\ effective_start \in CalcDates
    /\ effective_end \in CalcDates
    /\ fetched_start \in CalcDates \cup {None}
    /\ fetched_end \in CalcDates \cup {None}
    /\ ranges_to_fetch = <<>>
    /\ ChunkIdle /\ FilesIdle /\ MergeIdle /\ StepIdle /\ StagesIdle

Calculate ==
    /\ pc = "calc"
    /\ ranges_to_fetch' = calculate_missing_ranges(
            effective_start, effective_end, fetched_start, fetched_end)
    /\ pc' = "calc_done"
    /\ UNCHANGED <<effective_start, effective_end, fetched_start, fetched_end>>
    /\ UNCHANGED <<stage_vars, chunk_vars, file_vars, merge_vars, step_vars>>

NextCalc == Calculate

SpecCalc == InitCalc /\ [][NextCalc]_vars

\* ------------------ run_fetch_stock_prices: merge and save, run repeatedly
\* The shapes a persisted price file can have when a merge starts.
ExistingFiles ==
    {Absent, InvalidJson, JsonObject}
    \cup {JsonList(d) : d \in RecordLists(MaxRecs)}
    \cup {JsonWrapped(d) : d \in RecordLists(MaxRecs)}

\* The shapes of the file the fetch script has written.
NewFiles == ExistingFiles \ {Absent}

InitMerge ==
    /\ pc = "merge"
    /\ symbol = "TCS"
    /\ \E f \in ExistingFiles : out_file = [s \in Symbols |-> IF s = "TCS" THEN f ELSE Absent]
    /\ payload \in NewFiles
    /\ tmp_file = [s \in Symbols |-> IF s = "TCS" THEN payload ELSE Absent]
    /\ merge_log = <<>>
    /\ start_date = None /\ end_date = None /\ current_date = None
    /\ requests = <<>> /\ failed_chunks = <<>>
    /\ CalcIdle /\ StepIdle /\ StagesIdle

\* Lines 309-319: merge the temporary file into output_path, save, clean up.
MergeAndSave ==
    /\ pc = "merge"
    /\ LET merged == merge_json_data(out_file[symbol], tmp_file[symbol])
       IN  /\ ~merged.raised
           /\ out_file' = [out_file EXCEPT ![symbol] = JsonList(merged.data)]
           /\ tmp_file' = [tmp_file EXCEPT ![symbol] = Absent]
           /\ merge_log' = Append(merge_log,
                    [existing |-> out_file[symbol], new |-> tmp_file[symbol],
                     result |-> merged.data])
    /\ pc' = "merged"
    /\ UNCHANGED <<stage_vars, calc_vars, chunk_vars, payload, step_vars>>

\* Line 310 raising: the exception leaves run_fetch_stock_prices.
MergeRaises ==
    /\ pc = "merge"
    /\ merge_json_data(out_file[symbol], tmp_file[symbol]).raised
    /\ pc' = "raised"
    /\ UNCHANGED <<stage_vars, calc_vars, chunk_vars, file_vars, merge_vars, step_vars>>

\* Lines 298-305 again for the same chunk: the script writes the same answer.
FetchAgain ==
    /\ pc = "merged"
    /\ Len(merge_log) < MaxRuns
    /\ tmp_file' = [tmp_file EXCEPT ![symbol] = payload]
    /\ pc' = "merge"
    /\ UNCHANGED <<stage_vars, calc_vars, chunk_vars, out_file, merge_vars, step_vars>>

NextMerge == MergeAndSave \/ MergeRaises \/ FetchAgain

SpecMerge == InitMerge /\ [][NextMerge]_vars

\* ------------- fetch_stock_prices_by_dates and run_fetch_stock_prices
\* The first days of the ranges: the floor date and the last day of
\* February of a leap year.
ChunkStarts == {DEFAULT_EARLIEST_DATE, DaysFromCivil(2016, 2, 29)}

\* What the fetch script leaves in the temporary file when it exits with
\* status 0: nothing (no data, or the save failed), the provider's answer
\* as a bare array or as {"data": [...]}, or an answer without a "data" key.
ScriptOutputs ==
    {Absent, JsonObject,
     JsonList(<<RecSwapped(1, 10), Rec(1, 11)>>), JsonWrapped(<<Rec(2, 10)>>)}

InitChunk ==
    /\ pc = "loop"
    /\ symbol = "TCS"
    /\ start_date \in ChunkStarts
    /\ end_date \in (start_date - 1) .. (start_date + MaxSpan)
    /\ current_date = start_date
    /\ requests = <<>>
    /\ failed_chunks = <<>>
    /\ \E f \in {Absent, JsonList(<<Rec(1, 10)>>)} :
            out_file = [s \in Symbols |-> IF s = "TCS" THEN f ELSE Absent]
    /\ tmp_file = [s \in Symbols |-> Absent]
    /\ CalcIdle /\ MergeIdle /\ StepIdle /\ StagesIdle

\* Line 376.
chunk_end_date == Min2(current_date + one_year, end_date)

\* Lines 287-295 and 380-381: the command of the current chunk.
ChunkCommand ==
    [symbol |-> symbol,
     from_date |-> format_date_dmy(current_date),
     to_date |-> format_date_dmy(chunk_end_date)]

\* Line 375 holds; lines 376-381 issue the fetch of the current chunk.
IssueFetch ==
    /\ pc = "loop"
    /\ current_date <= end_date
    /\ requests' = Append(requests, ChunkCommand)

\* The temporary file once the script has exited with status 0: what it
\* wrote, or what was there before when it wrote nothing.
TmpAfterScript(written) ==
    IF written = Absent THEN tmp_file[symbol] ELSE written

\* Line 384.
Advance == current_date' = chunk_end_date + one_day

\* The chunk just issued is recorded as failed.
NoteFailure(why) ==
    failed_chunks' = Append(failed_chunks,
        [chunk |-> Len(requests) + 1, why |-> why, before |-> out_file[symbol]])

\* One iteration: the script exits non-zero, run_command raises
\* CalledProcessError and run_fetch_stock_prices returns (lines 298-302).
ChunkProcessError ==
    /\ IssueFetch
    /\ NoteFailure("exit")
    /\ Advance
    /\ UNCHANGED <<stage_vars, pc, calc_vars, symbol, start_date, end_date, file_vars, merge_vars, step_vars>>

\* One iteration: the script exits with status 0 and there is no temporary
\* file; the merge is skipped (lines 305-307).
ChunkNoFile ==
    /\ IssueFetch
    /\ TmpAfterScript(Absent) = Absent
    /\ NoteFailure("nofile")
    /\ Advance
    /\ UNCHANGED <<stage_vars, pc, calc_vars, symbol, start_date, end_date, file_vars, merge_vars, step_vars>>

\* One iteration: the script writes its answer, the merge succeeds, the
\* merged list is saved and the temporary file removed (lines 309-319).
ChunkMerged ==
    /\ IssueFetch
    /\ \E written \in ScriptOutputs :
        LET merged == merge_json_data(out_file[symbol], TmpAfterScript(written))
        IN  /\ TmpAfterScript(written) # Absent
            /\ ~merged.raised
            /\ out_file' = [out_file EXCEPT ![symbol] = JsonList(merged.data)]
            /\ tmp_file' = [tmp_file EXCEPT ![symbol] = Absent]
    /\ Advance
    /\ UNCHANGED <<stage_vars, pc, calc_vars, symbol, start_date, end_date, failed_chunks, merge_vars, step_vars>>

\* One iteration: the script writes its answer and merge_json_data raises
\* (line 310); nothing catches it in run_fetch_stock_prices nor in the loop,
\* so fetch_stock_prices_by_dates ends with the exception, the temporary
\* file left behind.
ChunkMergeRaises ==
    /\ IssueFetch
    /\ \E written \in ScriptOutputs :
        /\ TmpAfterScript(written) # Absent
        /\ merge_json_data(out_file[symbol], TmpAfterScript(written)).raised
        /\ tmp_file' = [tmp_file EXCEPT ![symbol] = TmpAfterScript(written)]
    /\ NoteFailure("merge")
    /\ pc' = "raised"
    /\ UNCHANGED <<stage_vars, calc_vars, symbol, start_date, end_date, current_date, out_file, merge_vars, step_vars>>

\* Line 375 fails: the loop ends and the function returns.
LoopExit ==
    /\ pc = "loop"
    /\ current_date > end_date
    /\ pc' = "returned"
    /\ UNCHANGED <<stage_vars, calc_vars, chunk_vars, file_vars, merge_vars, step_vars>>

NextChunk ==
    \/ ChunkProcessError
    \/ ChunkNoFile
    \/ ChunkMerged
    \/ ChunkMergeRaises
    \/ LoopExit

SpecChunk == InitChunk /\ [][NextChunk]_vars

\* ------------------------------------------------ fetch_stock_prices_step
\* The day k days after the floor date, as a 'YYYY-MM-DD' string.
D(k) == format_date_ymd(DEFAULT_EARLIEST_DATE + k)

\* The symbol_metadata.json entries tried for the first symbol.
MetadataEntries ==
    {NoMetadata}
    \cup [present : {TRUE},
          listing_date : {EmptyStr, D(0), D(2), D(4)},
          start_date : {EmptyStr, BadStr, NotAStr, D(2), D(3)},
          end_date : {EmptyStr, BadStr, D(2), D(3)}]

InitStep ==
    /\ pc = "step"
    /\ stock_names \in {<<>>, <<"TCS">>, <<"TCS", "INFY">>}
    /\ price_settings \in [from_date : {EmptyStr, BadStr, D(1)},
                           to_date : {EmptyStr, BadStr, D(0), D(2), D(5)}]
    /\ today = DEFAULT_EARLIEST_DATE + 3
    /\ \E tcs \in MetadataEntries,
          infy \in {NoMetadata,
                    [present |-> TRUE, listing_date |-> D(2),
                     start_date |-> D(3), end_date |-> D(3)]} :
            metadata_dict = [s \in Symbols |-> IF s = "TCS" THEN tcs ELSE infy]
    /\ from_date = None
    /\ to_date = None
    /\ sym_i = 0
    /\ range_i = 0
    /\ processed_count = 0
    /\ error_count = 0
    /\ symbol_log = <<>>
    /\ CalcIdle /\ ChunkIdle /\ FilesIdle /\ MergeIdle /\ StagesIdle

\* Lines 445-452: the requested window.
ParsedFromDate ==
    get_date_or_default(price_settings.from_date, format_date_ymd(DEFAULT_EARLIEST_DATE))

\* The fallback of to_date is the datetime today, not a string.
ParsedToDate == get_date_or_default(price_settings.to_date, NotAStr)

\* Lines 424-426: no symbol, nothing to do.
StepNoSymbols ==
    /\ pc = "step"
    /\ stock_names = <<>>
    /\ pc' = "step_done"
    /\ UNCHANGED <<stage_vars, calc_vars, chunk_vars, file_vars, merge_vars, step_vars>>

\* Lines 444-455: the parse of the fallback raises TypeError, which the
\* except ValueError clause does not catch.
StepDateRaises ==
    /\ pc = "step"
    /\ stock_names # <<>>
    /\ ParsedFromDate.raised # "no" \/ ParsedToDate.raised # "no"
    /\ pc' = "step_raised"
    /\ UNCHANGED <<stage_vars, calc_vars, chunk_vars, file_vars, merge_vars, step_vars>>

\* Lines 440-466: the window is parsed, the metadata loaded, the loop starts.
StepBegin ==
    /\ pc = "step"
    /\ stock_names # <<>>
    /\ ParsedFromDate.raised = "no" /\ ParsedToDate.raised = "no"
    /\ from_date' = ParsedFromDate.value
    /\ to_date' = ParsedToDate.value
    /\ sym_i' = 1
    /\ pc' = "symbol"
    /\ UNCHANGED <<stage_vars, calc_vars, chunk_vars, file_vars, merge_vars, stock_names,
                   price_settings, today, metadata_dict, range_i,
                   processed_count, error_count, symbol_log>>

\* Lines 471-478.
normalized_symbol == stock_names[sym_i]

md_entry == metadata_dict[normalized_symbol]

\* Lines 481-483.
listing_date ==
    get_date_or_default(md_entry.listing_date,
                        format_date_ymd(DEFAULT_EARLIEST_DATE)).value

StepEffectiveStart == Max2(from_date, listing_date)

StepEffectiveEnd == Min2(to_date, today)

\* Mutant: the window is never found reversed.
NoValidRangeNever(es, ee) == FALSE

\* Line 485.
NoValidRange(es, ee) == es > ee

\* Lines 496-508: the coverage read from the metadata entry. A ValueError
\* leaves what was parsed before it; a TypeError is not caught here.
ParsedCoverage ==
    LET s == strptime_ymd(md_entry.start_date)
        e == strptime_ymd(md_entry.end_date)
        has_s == md_entry.present /\ Truthy(md_entry.start_date)
        has_e == md_entry.present /\ Truthy(md_entry.end_date)
        s_bad == has_s /\ s.raised = "ValueError"
    IN  [raised |-> \/ has_s /\ s.raised = "TypeError"
                    \/ has_e /\ ~s_bad /\ e.raised = "TypeError",
         fetched_start |-> IF has_s /\ s.raised = "no" THEN s.value ELSE None,
         fetched_end |-> IF has_e /\ ~s_bad /\ e.raised = "no"
                         THEN e.value ELSE None]

\* Lines 511-513.
StepRanges ==
    calculate_missing_ranges(StepEffectiveStart, StepEffectiveEnd,
                             ParsedCoverage.fetched_start, ParsedCoverage.fetched_end)

AtSymbol == pc = "symbol" /\ sym_i <= Len(stock_names)

\* What the visit of the current symbol leaves in the locals and the log.
Visit(fs, fe, ranges, outcome) ==
    /\ effective_start' = StepEffectiveStart
    /\ effective_end' = StepEffectiveEnd
    /\ fetched_start' = fs
    /\ fetched_end' = fe
    /\ ranges_to_fetch' = ranges
    /\ symbol_log' = Append(symbol_log,
            [symbol |-> normalized_symbol,
             effective_start |-> StepEffectiveStart,
             effective_end |-> StepEffectiveEnd,
             fetched_start |-> fs, fetched_end |-> fe,
             ranges |-> ranges, outcome |-> outcome])

\* Lines 485-493: reversed window, continue with the next symbol.
SymbolNoValidRange ==
    /\ AtSymbol
    /\ NoValidRange(StepEffectiveStart, StepEffectiveEnd)
    /\ Visit(None, None, <<>>, "no_range")
    /\ sym_i' = sym_i + 1
    /\ UNCHANGED <<stage_vars, pc, chunk_vars, file_vars, merge_vars, stock_names,
                   price_settings, today, metadata_dict, from_date, to_date,
                   range_i, processed_count, error_count>>

\* Lines 501-503 raise TypeError; lines 536-542 count the symbol as an error.
SymbolMetadataRaises ==
    /\ AtSymbol
    /\ ~NoValidRange(StepEffectiveStart, StepEffectiveEnd)
    /\ ParsedCoverage.raised
    /\ Visit(None, None, <<>>, "error")
    /\ error_count' = error_count + 1
    /\ sym_i' = sym_i + 1
    /\ UNCHANGED <<stage_vars, pc, chunk_vars, file_vars, merge_vars, stock_names,
                   price_settings, today, metadata_dict, from_date, to_date,
                   range_i, processed_count>>

\* Lines 515-522: nothing is missing, continue with the next symbol.
SymbolUpToDate ==
    /\ AtSymbol
    /\ ~NoValidRange(StepEffectiveStart, StepEffectiveEnd)
    /\ ~ParsedCoverage.raised
    /\ StepRanges = <<>>
    /\ Visit(ParsedCoverage.fetched_start, ParsedCoverage.fetched_end, <<>>, "up_to_date")
    /\ sym_i' = sym_i + 1
    /\ UNCHANGED <<stage_vars, pc, chunk_vars, file_vars, merge_vars, stock_names,
                   price_settings, today, metadata_dict, from_date, to_date,
                   range_i, processed_count, error_count>>

\* Lines 525-532 and 372: the chunked fetch of range number i starts.
EnterRange(ranges, i) ==
    /\ range_i' = i
    /\ start_date' = ranges[i][1]
    /\ end_date' = ranges[i][2]
    /\ current_date' = ranges[i][1]
    /\ pc' = "loop"

\* Lines 511-532: there are missing ranges, the first one is fetched.
SymbolFetch ==
    /\ AtSymbol
    /\ ~NoValidRange(StepEffectiveStart, StepEffectiveEnd)
    /\ ~ParsedCoverage.raised
    /\ StepRanges # <<>>
    /\ Visit(ParsedCoverage.fetched_start, ParsedCoverage.fetched_end, StepRanges, "fetch")
    /\ symbol' = normalized_symbol
    /\ EnterRange(StepRanges, 1)
    /\ UNCHANGED <<stage_vars, requests, failed_chunks, file_vars, merge_vars, stock_names,
                   price_settings, today, metadata_dict, from_date, to_date,
                   sym_i, processed_count, error_count>>

\* Line 525: fetch_stock_prices_by_dates returned, the next range is fetched.
NextRange ==
    /\ pc = "returned"
    /\ range_i < Len(ranges_to_fetch)
    /\ EnterRange(ranges_to_fetch, range_i + 1)
    /\ UNCHANGED <<stage_vars, calc_vars, symbol, requests, failed_chunks, file_vars,
                   merge_vars, stock_names, price_settings, today,
                   metadata_dict, from_date, to_date, sym_i, processed_count,
                   error_count, symbol_log>>

\* Line 534: every range of the symbol was fetched.
SymbolProcessed ==
    /\ pc = "returned"
    /\ range_i >= Len(ranges_to_fetch)
    /\ processed_count' = processed_count + 1
    /\ sym_i' = sym_i + 1
    /\ pc' = "symbol"
    /\ UNCHANGED <<stage_vars, calc_vars, chunk_vars, file_vars, merge_vars, stock_names,
                   price_settings, today, metadata_dict, from_date, to_date,
                   range_i, error_count, symbol_log>>

\* Mutant: the exception of one symbol ends the loop over the symbols.
SymbolRaisedEndsLoop ==
    /\ pc = "raised"
    /\ error_count' = error_count + 1
    /\ pc' = "step_done"
    /\ UNCHANGED <<stage_vars, calc_vars, chunk_vars, file_vars, merge_vars, stock_names,
                   price_settings, today, metadata_dict, from_date, to_date,
                   sym_i, range_i, processed_count, symbol_log>>

\* Lines 536-542: the exception of the chunked fetch is caught and counted.
SymbolRaised ==
    /\ pc = "raised"
    /\ error_count' = error_count + 1
    /\ sym_i' = sym_i + 1
    /\ pc' = "symbol"
    /\ UNCHANGED <<stage_vars, calc_vars, chunk_vars, file_vars, merge_vars, stock_names,
                   price_settings, today, metadata_dict, from_date, to_date,
                   range_i, processed_count, symbol_log>>

\* Lines 544-547: the loop over the symbols is over.
StepEnd ==
    /\ pc = "symbol"
    /\ sym_i > Len(stock_names)
    /\ pc' = "step_done"
    /\ UNCHANGED <<stage_vars, calc_vars, chunk_vars, file_vars, merge_vars, step_vars>>

NextStep ==
    \/ StepNoSymbols
    \/ StepDateRaises
    \/ StepBegin
    \/ SymbolNoValidRange
    \/ SymbolMetadataRaises
    \/ SymbolUpToDate
    \/ SymbolFetch
    \/ ChunkProcessError
    \/ ChunkNoFile
    \/ ChunkMerged
    \/ ChunkMergeRaises
    \/ LoopExit
    \/ NextRange
    \/ SymbolProcessed
    \/ SymbolRaised
    \/ StepEnd

SpecStep == InitStep /\ [][NextStep]_vars

\* calculate_missing_ranges on any arguments, and as the step calls it.
InitReconcile == InitCalc \/ InitStep

NextReconcile == NextCalc \/ NextStep

SpecReconcile == InitReconcile /\ [][NextReconcile]_vars

\* ------------------------------------------- scripts/data_ingest.py
\* Python's None where a text is expected; NULL in a text column.
NoneText == "None"

\* A CH_CLOSING_PRICE that float() rejects.
BadNum == 0

\* dict.pop(key, default) on a copy of the record: the value of the key.
DictPop(entry, key, default) ==
    IF \E i \in 1 .. Len(entry) : entry[i][1] = key
    THEN entry[CHOOSE i \in 1 .. Len(entry) : entry[i][1] = key][2]
    ELSE default

\* A price record as the provider gives it.
PriceRec(sym, ts, close) ==
    << <<"CH_SYMBOL", sym>>, <<"CH_TIMESTAMP", ts>>, <<"CH_CLOSING_PRICE", close>> >>

\* The id column of table stocks.
StockIds == {1, 2}

\* The price records upserted: two prices for one trade date, another trade
\* date with a price that is no number, a timestamp that is no date.
PriceItems ==
    {PriceRec("TCS", D(0), 10), PriceRec("TCS", D(0), 11),
     PriceRec("TCS", D(1), BadNum), PriceRec("TCS", BadStr, 10)}

\* Lines 162-168: the trade date, None when CH_TIMESTAMP is missing, empty
\* or no date.
trade_date(price_item) ==
    LET trade_date_str == DictPop(price_item, "CH_TIMESTAMP", NoneStr)
    IN  IF Truthy(trade_date_str) /\ strptime_ymd(trade_date_str).raised = "no"
        THEN strptime_ymd(trade_date_str).value
        ELSE None

\* Lines 181-186.
sanitize_float(value) == IF value \in {None, BadNum} THEN None ELSE value

\* The values of the INSERT, lines 235-240.
RowValues(stock_id, price_item) ==
    [stock_id |-> stock_id,
     symbol |-> DictPop(price_item, "CH_SYMBOL", NoneText),
     trade_date |-> trade_date(price_item),
     close_price |-> sanitize_float(DictPop(price_item, "CH_CLOSING_PRICE", None))]

\* symbol and trade_date are NOT NULL columns (lines 72-73).
ViolatesNotNull(row) == row.symbol = NoneText \/ row.trade_date = None

\* The rows in conflict with the row on the unique index (lines 94-97).
Conflicts(table, row) ==
    {i \in 1 .. Len(table) :
        /\ table[i].stock_id = row.stock_id
        /\ table[i].trade_date = row.trade_date}

\* Mutant: the row is inserted whether or not its key is in the table.
InsertAlways(table, row) == Append(table, row)

\* INSERT ... ON CONFLICT (stock_id, trade_date) DO UPDATE SET ... = EXCLUDED
InsertOnConflictUpdate(table, row) ==
    IF Conflicts(table, row) = {}
    THEN Append(table, row)
    ELSE [i \in 1 .. Len(table) |->
            IF i \in Conflicts(table, row) THEN row ELSE table[i]]

\* upsert_stock_price on a connection and a table: the table and the
\* connection after the call, and whether it raised. A statement on a
\* connection whose transaction failed raises; so does a NULL in a NOT NULL
\* column, and the transaction is then failed, nothing being committed.
upsert_stock_price(conn, table, stock_id, price_item) ==
    IF conn = "failed" \/ ViolatesNotNull(RowValues(stock_id, price_item))
    THEN [raised |-> TRUE, conn |-> "failed", table |-> table]
    ELSE [raised |-> FALSE, conn |-> conn,
          table |-> InsertOnConflictUpdate(table, RowValues(stock_id, price_item))]

\* Lines 284-289: the price records of the file.
IngestData(file) ==
    IF file.kind = "object" THEN <<file.items>> ELSE file.items

\* Lines 292-293: the loop over the records, left by the first exception.
RECURSIVE IngestRows(_, _, _, _, _)
IngestRows(conn, table, log, stock_id, data) ==
    IF data = <<>>
    THEN [raised |-> FALSE, conn |-> conn, table |-> table, log |-> log]
    ELSE LET r == upsert_stock_price(conn, table, stock_id, Head(data))
             entry == [stock_id |-> stock_id, price_item |-> Head(data),
                       raised |-> r.raised]
         IN  IF r.raised
             THEN [raised |-> TRUE, conn |-> r.conn, table |-> r.table,
                   log |-> Append(log, entry)]
             ELSE IngestRows(r.conn, r.table, Append(log, entry), stock_id, Tail(data))

\* The price files given to ingest_prices_for_symbol.
PricesFiles ==
    {Absent, InvalidJson, JsonObject}
    \cup {JsonList(d) : d \in UNION {[1 .. k -> PriceItems] : k \in 0 .. 2}}
    \cup {JsonWrapped(<<PriceRec("TCS", D(0), 11), PriceRec("TCS", D(1), BadNum)>>)}

InitIngest ==
    /\ pc = "db"
    /\ DbIdle /\ MainIdle
    /\ metadata = <<>> /\ update_log = <<>>
    /\ metadata_file = Absent /\ config = NoConfigDates
    /\ CalcIdle /\ ChunkIdle /\ FilesIdle /\ MergeIdle /\ StepIdle

\* A call of upsert_stock_price (lines 145-243).
UpsertStockPrice ==
    /\ pc = "db"
    /\ Len(upsert_log) < MaxUpserts
    /\ \E stock_id \in StockIds, price_item \in PriceItems :
        LET r == upsert_stock_price(conn_status, stock_prices, stock_id, price_item)
        IN  /\ stock_prices' = r.table
            /\ conn_status' = r.conn
            /\ upsert_log' = Append(upsert_log,
                    [stock_id |-> stock_id, price_item |-> price_item,
                     raised |-> r.raised])
    /\ UNCHANGED <<pc, fetch_vars, stocks, batch, pop_vars, metadata_file, config,
                   main_vars>>

\* A call of ingest_prices_for_symbol (lines 270-294) on a file that is
\* there and is JSON.
IngestPricesForSymbol ==
    /\ pc = "db"
    /\ \E stock_id \in StockIds, prices_file \in PricesFiles :
        /\ prices_file.kind \notin {"absent", "invalid"}
        /\ Len(upsert_log) + Len(IngestData(prices_file)) <= MaxUpserts
        /\ LET r == IngestRows(conn_status, stock_prices, upsert_log, stock_id,
                               IngestData(prices_file))
           IN  /\ stock_prices' = r.table
               /\ conn_status' = r.conn
               /\ upsert_log' = r.log
    /\ UNCHANGED <<pc, fetch_vars, stocks, batch, pop_vars, metadata_file, config,
                   main_vars>>

\* ingest_prices_for_symbol on a missing file returns at line 282.
IngestNoFile ==
    /\ pc = "db"
    /\ \E prices_file \in PricesFiles : prices_file.kind = "absent"
    /\ pc' = "db_no_file"
    /\ UNCHANGED <<fetch_vars, stage_vars>>

\* The caller goes on with the same connection (line 309).
IngestResume ==
    /\ pc = "db_no_file"
    /\ pc' = "db"
    /\ UNCHANGED <<fetch_vars, stage_vars>>

\* On a file that is no JSON, json.load raises at line 285, before any
\* statement; nothing catches it.
IngestInvalidJson ==
    /\ pc = "db"
    /\ \E prices_file \in PricesFiles : prices_file.kind = "invalid"
    /\ pc' = "db_raised"
    /\ UNCHANGED <<fetch_vars, stage_vars>>

NextIngest ==
    \/ UpsertStockPrice
    \/ IngestPricesForSymbol
    \/ IngestNoFile
    \/ IngestResume
    \/ IngestInvalidJson

SpecIngest == InitIngest /\ [][NextIngest]_vars

\* ------------------------------------ the stock list, data_ingest.main
\* dict.get(key, default) on a number field, None standing for "no key".
GetOr(value, default) == IF value = None THEN default ELSE value

\* A record of the stock list: its symbol (NoneText when it has none), its
\* priority (None when it has none), the listing date under "meta" and the
\* one under the flattened key "meta_listingDate" (NoneStr when absent).
StockItem(sym, priority, nested, flat) ==
    [symbol |-> sym, priority |-> priority, meta |-> nested,
     meta_listingDate |-> flat]

\* transform_stock_list.py, lines 39-63: the keys of "meta" move up.
flatten_stock_item(item) ==
    IF item.meta = NoneStr
    THEN item
    ELSE [item EXCEPT !.meta = NoneStr, !.meta_listingDate = item.meta]

\* stock_list.get("data", []) on a stock list that is a JSON object.
DataOf(file) == IF file.kind = "wrapped" THEN file.items ELSE <<>>

\* transform_stock_list.py, lines 65-73 and 112: the flattened list of
\* stock_list["data"], saved under "data".
flatten_stock_list(file) ==
    JsonWrapped([i \in 1 .. Len(DataOf(file)) |->
                    flatten_stock_item(DataOf(file)[i])])

\* The row of table stocks made of a record: the columns kept are the
\* symbol and, in meta_data, the fields that are no column of their own.
StockRow(id, stock_item) ==
    [id |-> id, symbol |-> stock_item.symbol,
     meta_data |-> [priority |-> stock_item.priority,
                    meta_listingDate |-> stock_item.meta_listingDate]]

\* The rows in conflict with the symbol on its UNIQUE constraint.
StockConflicts(table, sym) == {i \in 1 .. Len(table) : table[i].symbol = sym}

\* upsert_stock: symbol is a NOT NULL column; INSERT ... ON CONFLICT (symbol)
\* DO UPDATE; a failed statement fails the transaction.
upsert_stock(conn, table, stock_item) ==
    IF conn = "failed" \/ stock_item.symbol = NoneText
    THEN [raised |-> TRUE, conn |-> "failed", table |-> table]
    ELSE [raised |-> FALSE, conn |-> conn,
          table |-> IF StockConflicts(table, stock_item.symbol) = {}
                    THEN Append(table, StockRow(Len(table) + 1, stock_item))
                    ELSE [i \in 1 .. Len(table) |->
                            IF i \in StockConflicts(table, stock_item.symbol)
                            THEN StockRow(table[i].id, stock_item)
                            ELSE table[i]]]

\* Lines 258-262: the records of the file, those of priority 0 kept.
priority_zero_records(file) ==
    SelectSeq(IF file.kind = "object" THEN <<>> ELSE file.items,
              LAMBDA record : GetOr(record.priority, -1) = 0)

\* Lines 265-267: the loop over the records, left by the first exception.
RECURSIVE IngestStockRows(_, _, _)
IngestStockRows(conn, table, items) ==
    IF items = <<>>
    THEN [raised |-> FALSE, conn |-> conn, table |-> table]
    ELSE LET r == upsert_stock(conn, table, Head(items))
         IN  IF r.raised
             THEN r
             ELSE IngestStockRows(r.conn, r.table, Tail(items))

\* The transformed stock lists given to ingest_stocks.
TransformedFiles ==
    {Absent, InvalidJson,
     JsonWrapped(<<StockItem("TCS", 0, NoneStr, D(0)),
                   StockItem("INFY", 0, NoneStr, D(1))>>),
     JsonWrapped(<<StockItem(NoneText, 0, NoneStr, D(0)),
                   StockItem("TCS", 0, NoneStr, D(0))>>),
     JsonWrapped(<<StockItem("TCS", 0, NoneStr, D(0)),
                   StockItem("TCS", 0, NoneStr, D(2))>>),
     JsonList(<<StockItem("INFY", 1, NoneStr, D(1)),
                StockItem("TCS", None, NoneStr, D(0))>>)}

\* The price files found by ingest_all_prices.
DbPricesFiles ==
    {Absent, InvalidJson, JsonObject,
     JsonList(<<PriceRec("TCS", D(0), 10), PriceRec("TCS", D(1), 11)>>),
     JsonList(<<PriceRec("TCS", BadStr, 10), PriceRec("TCS", D(0), 10)>>),
     JsonWrapped(<<PriceRec("TCS", D(0), 11), PriceRec("TCS", D(1), BadNum)>>)}

\* config.json as data_ingest.main finds it.
DbConfigFiles ==
    {NoConfigFile, [kind |-> "invalid", keys |-> {}],
     [kind |-> "object", keys |-> {"output_paths"}]}

InitDbMain ==
    /\ pc = "dbmain_stocks"
    /\ transformed_list \in TransformedFiles
    /\ out_file \in [Symbols -> DbPricesFiles]
    /\ tmp_file = [s \in Symbols |-> Absent]
    /\ config_file \in DbConfigFiles
    /\ DbIdle
    /\ index_list = Absent /\ stages = <<>> /\ run = 0
    /\ fetched_ok = [s \in Symbols |-> {}]
    /\ metadata = <<>> /\ update_log = <<>>
    /\ metadata_file = Absent /\ config = NoConfigDates
    /\ CalcIdle /\ ChunkIdle /\ MergeIdle /\ StepIdle

\* ingest_stocks returns at line 255: no transformed file.
DbIngestStocksNoFile ==
    /\ pc = "dbmain_stocks"
    /\ transformed_list.kind = "absent"
    /\ pc' = "dbmain_config"
    /\ UNCHANGED <<fetch_vars, stage_vars>>

\* json.load raises at line 258; nothing catches it.
DbIngestStocksInvalidJson ==
    /\ pc = "dbmain_stocks"
    /\ transformed_list.kind = "invalid"
    /\ pc' = "dbmain_raised"
    /\ UNCHANGED <<fetch_vars, stage_vars>>

\* ingest_stocks (lines 249-268) on a file that is JSON.
DbIngestStocks ==
    /\ pc = "dbmain_stocks"
    /\ transformed_list.kind \notin {"absent", "invalid"}
    /\ LET r == IngestStockRows(conn_status, stocks,
                                priority_zero_records(transformed_list))
       IN  /\ stocks' = r.table
           /\ conn_status' = r.conn
           /\ pc' = IF r.raised THEN "dbmain_raised" ELSE "dbmain_config"
    /\ batch' = [kind |-> "stocks", stock_id |-> 0,
                 data |-> priority_zero_records(transformed_list)]
    /\ UNCHANGED <<fetch_vars, stock_prices, upsert_log, pop_vars,
                   metadata_file, config, main_vars>>

\* Lines 345-346: without config.json no price is ingested.
DbNoConfig ==
    /\ pc = "dbmain_config"
    /\ config_file.kind = "absent"
    /\ pc' = "dbmain_closed"
    /\ UNCHANGED <<fetch_vars, stage_vars>>

\* Lines 347-348 raise: config.json is no JSON.
DbConfigInvalid ==
    /\ pc = "dbmain_config"
    /\ config_file.kind = "invalid"
    /\ pc' = "dbmain_raised"
    /\ UNCHANGED <<fetch_vars, stage_vars>>

\* Lines 347-349 and 305-307: the rows of table stocks are read.
DbConfigLoaded ==
    /\ pc = "dbmain_config"
    /\ config_file.kind = "object"
    /\ pc' = "dbmain_prices"
    /\ UNCHANGED <<fetch_vars, stage_vars>>

\* The position of the loop of ingest_all_prices (line 309): the row after
\* the one whose file was looked at last.
NextStockRow == IF batch.kind = "prices" THEN batch.stock_id + 1 ELSE 1

\* Lines 310-313: the symbol has no price file.
DbPricesNoFile ==
    /\ pc = "dbmain_prices"
    /\ NextStockRow <= Len(stocks)
    /\ out_file[stocks[NextStockRow].symbol].kind = "absent"
    /\ batch' = [kind |-> "prices", stock_id |-> NextStockRow, data |-> <<>>]
    /\ UNCHANGED <<pc, fetch_vars, stock_prices, conn_status, upsert_log,
                   stocks, pop_vars, metadata_file, config, main_vars>>

\* Line 285 raises: the price file is no JSON.
DbPricesInvalidJson ==
    /\ pc = "dbmain_prices"
    /\ NextStockRow <= Len(stocks)
    /\ out_file[stocks[NextStockRow].symbol].kind = "invalid"
    /\ pc' = "dbmain_raised"
    /\ UNCHANGED <<fetch_vars, stage_vars>>

\* Line 315: ingest_prices_for_symbol on the price file of the row.
DbIngestPrices ==
    /\ pc = "dbmain_prices"
    /\ NextStockRow <= Len(stocks)
    /\ LET row == stocks[NextStockRow]
           prices_file == out_file[row.symbol]
       IN  /\ prices_file.kind \notin {"absent", "invalid"}
           /\ LET r == IngestRows(conn_status, stock_prices, upsert_log,
                                  row.id, IngestData(prices_file))
              IN  /\ stock_prices' = r.table
                  /\ conn_status' = r.conn
                  /\ upsert_log' = r.log
                  /\ pc' = IF r.raised THEN "dbmain_raised" ELSE pc
           /\ batch' = [kind |-> "prices", stock_id |-> NextStockRow,
                        data |-> IngestData(prices_file)]
    /\ UNCHANGED <<fetch_vars, stocks, pop_vars, metadata_file, config,
                   main_vars>>

\* Line 351: every row was gone through, the connection is closed.
DbClose ==
    /\ pc = "dbmain_prices"
    /\ NextStockRow > Len(stocks)
    /\ pc' = "dbmain_closed"
    /\ UNCHANGED <<fetch_vars, stage_vars>>

NextDbMain ==
    \/ DbIngestStocksNoFile
    \/ DbIngestStocksInvalidJson
    \/ DbIngestStocks
    \/ DbNoConfig
    \/ DbConfigInvalid
    \/ DbConfigLoaded
    \/ DbPricesNoFile
    \/ DbPricesInvalidJson
    \/ DbIngestPrices
    \/ DbClose

SpecDbMain == InitDbMain /\ [][NextDbMain]_vars

\* ------------------------------- scripts/populate_stock_metadata.py
\* Mutant: the symbol is never found in the list.
find_symbol_never(sym, md) == 0

\* Lines 90-98: the position of the first entry of the symbol, 0 for None.
find_symbol_in_metadata(sym, md) ==
    IF \E i \in 1 .. Len(md) : md[i].symbol = sym
    THEN CHOOSE i \in 1 .. Len(md) :
            /\ md[i].symbol = sym
            /\ \A j \in 1 .. (i - 1) : md[j].symbol # sym
    ELSE 0

\* Lines 124-130: ValueError and TypeError give the default earliest date.
listing_date_dt(listing_date_str) ==
    IF strptime_ymd(listing_date_str).raised = "no"
    THEN strptime_ymd(listing_date_str).value
    ELSE strptime_ymd(D(0)).value

\* Line 133.
earliest_listed_dt(listing_date_str) ==
    Max2(listing_date_dt(listing_date_str), strptime_ymd(D(0)).value)

\* Lines 139-149: the date of a stock date string, None when the string is
\* empty or no date.
stock_date_dt(stock_date) ==
    IF Truthy(stock_date) /\ strptime_ymd(stock_date).raised = "no"
    THEN strptime_ymd(stock_date).value
    ELSE None

\* Mutant: the earliest stock date is left out of the potential starts.
start_date_dt_listed_only(listing_date_str, earliest_stock_date) ==
    earliest_listed_dt(listing_date_str)

\* Lines 153-157.
start_date_dt(listing_date_str, earliest_stock_date) ==
    IF stock_date_dt(earliest_stock_date) # None
    THEN Min2(earliest_listed_dt(listing_date_str), stock_date_dt(earliest_stock_date))
    ELSE earliest_listed_dt(listing_date_str)

\* Lines 162-166; now is datetime.now().
end_date_dt(listing_date_str, latest_stock_date, now) ==
    LET latest_or_now == IF stock_date_dt(latest_stock_date) # None
                         THEN stock_date_dt(latest_stock_date)
                         ELSE now
    IN  IF listing_date_dt(listing_date_str) > latest_or_now
        THEN listing_date_dt(listing_date_str)
        ELSE latest_or_now

\* Lines 169-179: the entry's values.
SymbolEntry(sym, listing_date_str, earliest_stock_date, latest_stock_date, now) ==
    [symbol |-> sym,
     listing_date |-> format_date_ymd(listing_date_dt(listing_date_str)),
     start_date |-> format_date_ymd(start_date_dt(listing_date_str, earliest_stock_date)),
     end_date |-> format_date_ymd(end_date_dt(listing_date_str, latest_stock_date, now))]

\* Line 122.
existing_entry(sym, md) == find_symbol_in_metadata(sym, md)

\* update_or_create_symbol_entry: the metadata list after the call.
update_or_create_symbol_entry(sym, listing_date_str, earliest_stock_date, latest_stock_date, md, now) ==
    LET entry == SymbolEntry(sym, listing_date_str, earliest_stock_date,
                             latest_stock_date, now)
    IN  IF existing_entry(sym, md) = 0
        THEN Append(md, entry)
        ELSE [md EXCEPT ![existing_entry(sym, md)] = entry]

\* An entry of symbol_metadata.json as an earlier run left it.
OldEntry(sym) ==
    [symbol |-> sym, listing_date |-> D(0), start_date |-> D(0), end_date |-> D(1)]

\* The metadata lists the calls start from: no symbol twice.
MetadataLists ==
    {<<>>, <<OldEntry("TCS")>>, <<OldEntry("INFY")>>,
     <<OldEntry("INFY"), OldEntry("TCS")>>}

\* The listing dates of the index file: missing, malformed, before the
\* default earliest date, after it, after today.
ListingDates == {EmptyStr, BadStr, D(0 - 2), D(2), D(6)}

\* What extract_symbol_dates_from_prices returns (lines 189-239): two empty
\* strings, or the earliest and the latest date of the price file.
SymbolDates == {<<EmptyStr, EmptyStr>>, <<D(1), D(4)>>, <<D(3), D(4)>>}

InitPopulate ==
    /\ pc = "populate"
    /\ metadata \in MetadataLists
    /\ update_log = <<>>
    /\ today = DEFAULT_EARLIEST_DATE + 5
    /\ stock_names = <<>>
    /\ price_settings = [from_date |-> EmptyStr, to_date |-> EmptyStr]
    /\ metadata_dict = [s \in Symbols |-> NoMetadata]
    /\ from_date = None /\ to_date = None
    /\ sym_i = 0 /\ range_i = 0
    /\ processed_count = 0 /\ error_count = 0
    /\ symbol_log = <<>>
    /\ DbIdle /\ MainIdle
    /\ metadata_file = Absent /\ config = NoConfigDates
    /\ CalcIdle /\ ChunkIdle /\ FilesIdle /\ MergeIdle

\* A call of update_or_create_symbol_entry (lines 101-186).
UpdateOrCreateSymbolEntry ==
    /\ pc = "populate"
    /\ Len(update_log) < MaxUpdates
    /\ \E sym \in Symbols, listing_date_str \in ListingDates, dates \in SymbolDates :
        LET after == update_or_create_symbol_entry(
                        sym, listing_date_str, dates[1], dates[2], metadata, today)
        IN  /\ metadata' = after
            /\ update_log' = Append(update_log,
                    [symbol |-> sym, listing_date_str |-> listing_date_str,
                     earliest_stock_date |-> dates[1],
                     latest_stock_date |-> dates[2],
                     before |-> metadata, after |-> after])
    /\ UNCHANGED <<pc, fetch_vars, db_vars, metadata_file, config, main_vars>>

NextPopulate == UpdateOrCreateSymbolEntry

SpecPopulate == InitPopulate /\ [][NextPopulate]_vars

\* ------------------------------------------------- load_symbol_metadata
\* An element of the JSON list of symbol_metadata.json: an object, with or
\* without a "symbol", or a value that is no object.
FileEntry(sym, listing, start, end) ==
    [is_dict |-> TRUE, symbol |-> sym, listing_date |-> listing,
     start_date |-> start, end_date |-> end]

NoDictEntry ==
    [is_dict |-> FALSE, symbol |-> NoneText, listing_date |-> EmptyStr,
     start_date |-> EmptyStr, end_date |-> EmptyStr]

FileEntries ==
    {FileEntry("TCS", D(0), D(2), D(3)), FileEntry("TCS", D(1), D(2), D(4)),
     FileEntry("INFY", D(0), D(2), D(3)), FileEntry("INFY", D(1), D(2), D(4)),
     FileEntry(NoneText, D(0), D(2), D(3)), FileEntry("", D(0), D(2), D(3)),
     NoDictEntry}

\* The contents of symbol_metadata.json: no file, no JSON, a JSON value that
\* is no list (a non-empty object), a list.
MetadataFiles ==
    {Absent, InvalidJson, JsonObject}
    \cup {JsonList(l) : l \in UNION {[1 .. k -> FileEntries] : k \in 0 .. MaxEntries}}

\* Line 256: a symbol that is None or empty is skipped.
TruthySymbol(sym) == sym \notin {NoneText, ""}

\* Lines 254-257: result[sym] = entry, a later entry replacing an earlier.
entry_of(metadata_list, sym) ==
    metadata_list[CHOOSE i \in 1 .. Len(metadata_list) :
        /\ metadata_list[i].symbol = sym
        /\ \A j \in (i + 1) .. Len(metadata_list) : metadata_list[j].symbol # sym]

\* The mapping as fetch_stock_prices_step reads it (lines 478-502).
AsMetadataDict(metadata_list) ==
    [s \in Symbols |->
        IF \E i \in 1 .. Len(metadata_list) : metadata_list[i].symbol = s
        THEN [present |-> TRUE,
              listing_date |-> entry_of(metadata_list, s).listing_date,
              start_date |-> entry_of(metadata_list, s).start_date,
              end_date |-> entry_of(metadata_list, s).end_date]
        ELSE NoMetadata]

\* load_symbol_metadata (lines 232-258): the mapping, or raised when the
\* loop meets a JSON value it cannot iterate or an element without .get.
load_symbol_metadata(file) ==
    IF file.kind \in {"absent", "invalid"}
    THEN [raised |-> FALSE, result |-> AsMetadataDict(<<>>)]
    ELSE IF file.kind # "list"
            \/ \E i \in 1 .. Len(file.items) : ~file.items[i].is_dict
    THEN [raised |-> TRUE, result |-> AsMetadataDict(<<>>)]
    ELSE [raised |-> FALSE,
          result |-> AsMetadataDict(
                SelectSeq(file.items, LAMBDA e : TruthySymbol(e.symbol)))]

InitLoad ==
    /\ pc = "load"
    /\ metadata_file \in MetadataFiles
    /\ DbIdle /\ MainIdle
    /\ metadata = <<>> /\ update_log = <<>>
    /\ config = NoConfigDates
    /\ CalcIdle /\ ChunkIdle /\ FilesIdle /\ MergeIdle /\ StepIdle

\* load_symbol_metadata returns the mapping.
LoadSymbolMetadata ==
    /\ pc = "load"
    /\ ~load_symbol_metadata(metadata_file).raised
    /\ metadata_dict' = load_symbol_metadata(metadata_file).result
    /\ pc' = "loaded"
    /\ UNCHANGED <<stage_vars, calc_vars, chunk_vars, file_vars, merge_vars,
                   stock_names, price_settings, today, from_date, to_date,
                   sym_i, range_i, processed_count, error_count, symbol_log>>

\* Lines 254-255 raise TypeError or AttributeError.
LoadSymbolMetadataRaises ==
    /\ pc = "load"
    /\ load_symbol_metadata(metadata_file).raised
    /\ pc' = "load_raised"
    /\ UNCHANGED <<fetch_vars, stage_vars>>

NextLoad == LoadSymbolMetadata \/ LoadSymbolMetadataRaises

SpecLoad == InitLoad /\ [][NextLoad]_vars

\* ------------------------------------------------------------------ main
\* Line 179.
one_year_ago(now) == now - 365

\* Mutant: a missing from_date is set to the default earliest date.
dynamic_date_defaults_floor(settings, now) ==
    [from_date |-> IF ~Truthy(settings.from_date)
                   THEN format_date_ymd(DEFAULT_EARLIEST_DATE)
                   ELSE settings.from_date,
     to_date |-> IF ~Truthy(settings.to_date)
                 THEN format_date_ymd(now)
                 ELSE settings.to_date]

\* dynamic_date_defaults (lines 169-186): price_fetch_settings after it.
dynamic_date_defaults(settings, now) ==
    [from_date |-> IF ~Truthy(settings.from_date)
                   THEN format_date_ymd(one_year_ago(now))
                   ELSE settings.from_date,
     to_date |-> IF ~Truthy(settings.to_date)
                 THEN format_date_ymd(now)
                 ELSE settings.to_date]

\* The price_fetch_settings of config.json: each date missing, malformed or
\* a date of the last days.
ConfigDates ==
    [from_date : {NoneStr, BadStr, D(398)},
     to_date : {NoneStr, BadStr, D(397), D(399)}]

\* The symbol_metadata.json entries of a run of main: none, one that covers
\* every window, one that covers a day inside the window, one whose
\* start_date is no string.
MainMetadataEntries ==
    {NoMetadata,
     [present |-> TRUE, listing_date |-> D(0), start_date |-> D(0),
      end_date |-> D(400)],
     [present |-> TRUE, listing_date |-> D(0), start_date |-> D(399),
      end_date |-> D(399)],
     [present |-> TRUE, listing_date |-> D(0), start_date |-> NotAStr,
      end_date |-> D(3)]}

\* main after load_config and validate_config (lines 601-605).
InitMain ==
    /\ pc = "main"
    /\ config \in ConfigDates
    /\ price_settings = config
    /\ today = DEFAULT_EARLIEST_DATE + 400
    /\ stock_names = <<>>
    /\ \E tcs \in MainMetadataEntries :
            metadata_dict = [s \in Symbols |-> IF s = "TCS" THEN tcs ELSE NoMetadata]
    /\ from_date = None /\ to_date = None
    /\ sym_i = 0 /\ range_i = 0
    /\ processed_count = 0 /\ error_count = 0
    /\ symbol_log = <<>>
    /\ DbIdle /\ MainIdle
    /\ metadata = <<>> /\ update_log = <<>>
    /\ metadata_file = Absent
    /\ CalcIdle /\ ChunkIdle /\ FilesIdle /\ MergeIdle

\* Line 606.
DynamicDateDefaults ==
    /\ pc = "main"
    /\ price_settings' = dynamic_date_defaults(price_settings, today)
    /\ pc' = "main_symbols"
    /\ UNCHANGED <<stage_vars, calc_vars, chunk_vars, file_vars, merge_vars,
                   stock_names, today, metadata_dict, from_date, to_date,
                   sym_i, range_i, processed_count, error_count, symbol_log>>

\* Lines 608-628: the symbols of priority 0 of the fetched stock list; then
\* fetch_stock_prices_step is called.
ExtractSymbols ==
    /\ pc = "main_symbols"
    /\ stock_names' \in {<<>>, <<"TCS">>, <<"TCS", "INFY">>}
    /\ pc' = "step"
    /\ UNCHANGED <<stage_vars, calc_vars, chunk_vars, file_vars, merge_vars,
                   price_settings, today, metadata_dict, from_date, to_date,
                   sym_i, range_i, processed_count, error_count, symbol_log>>

NextMain == DynamicDateDefaults \/ ExtractSymbols \/ NextStep

SpecMain == InitMain /\ [][NextMain]_vars

\* ------------------------------------------------- main, stage by stage
\* The keys validate_config asks for (lines 151-152), the output paths
\* written with their parent.
RequiredKeys ==
    {"index_name", "output_paths", "price_fetch_settings",
     "output_paths.stock_list", "output_paths.transformed_stock_list",
     "output_paths.stock_prices", "output_paths.stock_names"}

\* A config.json that is a JSON object with the given keys.
ConfigObject(keys) == [kind |-> "object", keys |-> keys]

\* Lines 133-137: load_config raises for a missing file or invalid JSON.
load_config_raises(file) == file.kind \in {"absent", "invalid"}

\* Mutant: no key is asked for.
validate_config_nothing(file) == FALSE

\* Lines 155-161: validate_config raises KeyError for a missing key.
validate_config_raises(file) == ~(RequiredKeys \subseteq file.keys)

\* The config files main is started on.
PipelineConfigFiles ==
    {NoConfigFile, [kind |-> "invalid", keys |-> {}],
     ConfigObject(RequiredKeys),
     ConfigObject(RequiredKeys \ {"index_name"}),
     ConfigObject(RequiredKeys \ {"price_fetch_settings"}),
     ConfigObject({"index_name", "price_fetch_settings"}),
     ConfigObject(RequiredKeys \ {"output_paths.stock_names"})}

\* The stages of main in the order of lines 608-638.
StageOrder ==
    <<"fetch_stock_list", "extract_symbols", "fetch_stock_prices",
      "transform_stock_list", "populate_stock_metadata", "db_ingest">>

\* The stage is started; failed tells the outcome of its command.
StartStage(name, failed) ==
    stages' = Append(stages, [stage |-> name, failed |-> failed])

\* The stock lists the fetch_stock_list script writes.
IndexLists ==
    {JsonWrapped(<<StockItem("TCS", 0, D(399), NoneStr),
                   StockItem("INFY", 1, D(0), NoneStr)>>),
     JsonWrapped(<<StockItem("TCS", 0, D(0), NoneStr),
                   StockItem("INFY", None, D(0), NoneStr)>>),
     JsonWrapped(<<>>),
     JsonWrapped(<<StockItem(NoneText, 0, D(0), NoneStr)>>),
     JsonList(<<StockItem("TCS", 0, D(0), NoneStr)>>)}

\* Lines 615-619: the symbols of the records of priority 0, a record
\* without priority taken as one of priority 0.
main_stock_names(file) ==
    LET selected == SelectSeq(DataOf(file),
                        LAMBDA item : GetOr(item.priority, 0) = 0)
    IN  [i \in 1 .. Len(selected) |-> selected[i].symbol]

\* Lines 612-619 raise: no stock list file, no JSON, no JSON object, or a
\* selected record without "symbol".
extract_raises(file) ==
    \/ file.kind \in {"absent", "invalid", "list"}
    \/ \E i \in 1 .. Len(main_stock_names(file)) :
            main_stock_names(file)[i] = NoneText

\* The options run_transform_stock_list passes to the script (lines
\* 327-330) and the ones the script requires (its lines 86-95).
TransformGiven == {"--input"}

TransformRequired == {"--input", "--output"}

\* argparse ends the script with status 2 when a required option is
\* missing.
transform_exit_status(given) == IF TransformRequired \subseteq given THEN 0 ELSE 2

InitPipeline ==
    /\ pc = "main_start"
    /\ config_file \in PipelineConfigFiles
    /\ config \in ConfigDates
    /\ (load_config_raises(config_file) \/ validate_config_raises(config_file))
            => config = NoConfigDates
    /\ price_settings = [from_date |-> EmptyStr, to_date |-> EmptyStr]
    /\ index_list \in {Absent,
                       JsonWrapped(<<StockItem("TCS", 0, D(0), NoneStr)>>)}
    /\ transformed_list = Absent
    /\ stages = <<>>
    /\ run = 1
    /\ fetched_ok = [s \in Symbols |-> {}]
    /\ today = DEFAULT_EARLIEST_DATE + 400
    /\ stock_names = <<>>
    /\ \E tcs \in MainMetadataEntries :
            metadata_dict = [s \in Symbols |-> IF s = "TCS" THEN tcs ELSE NoMetadata]
    /\ from_date = None /\ to_date = None
    /\ sym_i = 0 /\ range_i = 0
    /\ processed_count = 0 /\ error_count = 0
    /\ symbol_log = <<>>
    /\ DbIdle
    /\ metadata = <<>> /\ update_log = <<>>
    /\ metadata_file = Absent
    /\ CalcIdle /\ ChunkIdle /\ FilesIdle /\ MergeIdle

\* Line 604 raises.
LoadConfigRaises ==
    /\ pc = "main_start"
    /\ load_config_raises(config_file)
    /\ pc' = "main_raised"
    /\ UNCHANGED <<fetch_vars, stage_vars>>

\* Line 605 raises.
ValidateConfigRaises ==
    /\ pc = "main_start"
    /\ ~load_config_raises(config_file)
    /\ validate_config_raises(config_file)
    /\ pc' = "main_raised"
    /\ UNCHANGED <<fetch_vars, stage_vars>>

\* Lines 604-605: the configuration is loaded and found valid.
ConfigLoaded ==
    /\ pc = "main_start"
    /\ ~load_config_raises(config_file)
    /\ ~validate_config_raises(config_file)
    /\ price_settings' = config
    /\ pc' = "main"
    /\ UNCHANGED <<stage_vars, calc_vars, chunk_vars, file_vars, merge_vars,
                   stock_names, today, metadata_dict, from_date, to_date,
                   sym_i, range_i, processed_count, error_count, symbol_log>>

\* Mutant: the failure of the fetch_stock_list command is passed over.
FetchStockListFailureIgnored ==
    /\ pc = "main_symbols"
    /\ StartStage("fetch_stock_list", TRUE)
    /\ pc' = "main_extract"
    /\ UNCHANGED <<fetch_vars, db_vars, pop_vars, metadata_file, config,
                   config_file, index_list, transformed_list, run, fetched_ok>>

\* Line 609: the fetch_stock_list command exits with a non-zero status;
\* run_command raises CalledProcessError again (lines 51-59).
FetchStockListFails ==
    /\ pc = "main_symbols"
    /\ StartStage("fetch_stock_list", TRUE)
    /\ pc' = "main_raised"
    /\ UNCHANGED <<fetch_vars, db_vars, pop_vars, metadata_file, config,
                   config_file, index_list, transformed_list, run, fetched_ok>>

\* Line 609: the command exits with status 0, having saved the list it
\* fetched, or having saved nothing when the provider gave no data
\* (fetch_stock_list.py, lines 24-29).
FetchStockList ==
    /\ pc = "main_symbols"
    /\ StartStage("fetch_stock_list", FALSE)
    /\ index_list' \in IndexLists \cup {index_list}
    /\ pc' = "main_extract"
    /\ UNCHANGED <<fetch_vars, db_vars, pop_vars, metadata_file, config,
                   config_file, transformed_list, run, fetched_ok>>

\* Lines 612-619 raise.
ExtractSymbolsRaises ==
    /\ pc = "main_extract"
    /\ extract_raises(index_list)
    /\ StartStage("extract_symbols", FALSE)
    /\ pc' = "main_raised"
    /\ UNCHANGED <<fetch_vars, db_vars, pop_vars, metadata_file, config,
                   config_file, index_list, transformed_list, run, fetched_ok>>

\* Lines 612-625: the symbols of priority 0 are extracted and saved.
ExtractStockNames ==
    /\ pc = "main_extract"
    /\ ~extract_raises(index_list)
    /\ StartStage("extract_symbols", FALSE)
    /\ stock_names' = main_stock_names(index_list)
    /\ pc' = "main_prices"
    /\ UNCHANGED <<db_vars, pop_vars, metadata_file, config, config_file,
                   index_list, transformed_list, run, fetched_ok,
                   calc_vars, chunk_vars, file_vars, merge_vars,
                   price_settings, today, metadata_dict, from_date, to_date,
                   sym_i, range_i, processed_count, error_count, symbol_log>>

\* Line 628: fetch_stock_prices_step is called.
CallFetchStockPricesStep ==
    /\ pc = "main_prices"
    /\ StartStage("fetch_stock_prices", FALSE)
    /\ pc' = "step"
    /\ UNCHANGED <<fetch_vars, db_vars, pop_vars, metadata_file, config,
                   config_file, index_list, transformed_list, run, fetched_ok>>

\* Line 631: the transform command lacks the required --output, the
\* script exits with status 2 and run_command raises CalledProcessError
\* again; lines 634-639 are not reached.
RunTransformFails ==
    /\ pc = "step_done"
    /\ transform_exit_status(TransformGiven) # 0
    /\ StartStage("transform_stock_list", TRUE)
    /\ pc' = "main_raised"
    /\ UNCHANGED <<fetch_vars, db_vars, pop_vars, metadata_file, config,
                   config_file, index_list, transformed_list, run, fetched_ok>>

NextPipeline ==
    \/ LoadConfigRaises
    \/ ValidateConfigRaises
    \/ ConfigLoaded
    \/ DynamicDateDefaults
    \/ FetchStockListFails
    \/ FetchStockList
    \/ ExtractSymbolsRaises
    \/ ExtractStockNames
    \/ CallFetchStockPricesStep
    \/ NextStep
    \/ RunTransformFails

SpecPipeline == InitPipeline /\ [][NextPipeline]_vars

\* ------------------------------ a fetch cycle and the stages after it
\* The stages that follow the price fetch are scripts with their own
\* entry points; here each is run with the options it requires, in the
\* order of main, and main is then run again.

\* extract_symbol_dates_from_prices (populate_stock_metadata.py, lines
\* 189-239): the earliest and the latest CH_TIMESTAMP of the price file
\* that is a date, two empty strings when there is none.
extract_symbol_dates_from_prices(file) ==
    LET data == IF file.kind = "list" THEN file.items ELSE <<>>
        valid_dates ==
            {strptime_ymd(TradeDate(data[i])).value :
                i \in {j \in 1 .. Len(data) :
                        /\ Truthy(DictPop(data[j], "CH_TIMESTAMP", NoneStr))
                        /\ strptime_ymd(TradeDate(data[j])).raised = "no"}}
    IN  IF valid_dates = {}
        THEN <<EmptyStr, EmptyStr>>
        ELSE <<format_date_ymd(CHOOSE d \in valid_dates :
                                    \A e \in valid_dates : d <= e),
               format_date_ymd(CHOOSE d \in valid_dates :
                                    \A e \in valid_dates : d >= e)>>

\* populate_stock_metadata.main, lines 298-306: the record is passed over
\* when its priority is not 0 or it has no symbol.
populate_skips(item) ==
    \/ item.priority # 0
    \/ item.symbol \in {NoneText, ""}

\* populate_stock_metadata.main, lines 297-323: the loop over the records
\* of the index list, on the metadata list md and the price files.
RECURSIVE populate_items(_, _, _, _)
populate_items(items, md, files, now) ==
    IF items = <<>> THEN md
    ELSE IF populate_skips(Head(items))
    THEN populate_items(Tail(items), md, files, now)
    ELSE LET item == Head(items)
             listing_date_str == IF Truthy(item.meta_listingDate)
                                 THEN item.meta_listingDate
                                 ELSE EmptyStr
             dates == IF files[item.symbol].kind = "absent"
                      THEN <<EmptyStr, EmptyStr>>
                      ELSE extract_symbol_dates_from_prices(files[item.symbol])
         IN  populate_items(Tail(items),
                 update_or_create_symbol_entry(item.symbol, listing_date_str,
                                               dates[1], dates[2], md, now),
                 files, now)

\* The provider's answer to the chunk from first to last: one record per
\* date.
FullAnswer(first, last) ==
    JsonList([k \in 1 .. (last - first + 1) |->
                Rec(format_date_ymd(first + k - 1), 10)])

\* The index lists of the cycle: a listing date before the floor date under
\* the flattened key; a record without priority; listing dates inside and
\* after the window, nested under "meta" or flattened.
CycleLists ==
    {JsonWrapped(<<StockItem("TCS", 0, NoneStr, D(0 - 5)),
                   StockItem("INFY", 1, NoneStr, D(0))>>),
     JsonWrapped(<<StockItem("TCS", 0, D(2), NoneStr),
                   StockItem("INFY", None, NoneStr, D(0))>>),
     JsonWrapped(<<StockItem("TCS", 0, NoneStr, D(2)),
                   StockItem("INFY", 0, NoneStr, D(4))>>),
     JsonWrapped(<<>>)}

\* What earlier cycles left: nothing, or one day of TCS fetched and
\* recorded.
EarlierCycles ==
    {[metadata |-> <<>>, file |-> Absent, fetched |-> {}],
     [metadata |-> <<[symbol |-> "TCS", listing_date |-> D(0),
                     start_date |-> D(1), end_date |-> D(1)]>>,
      file |-> FullAnswer(DEFAULT_EARLIEST_DATE + 1, DEFAULT_EARLIEST_DATE + 1),
      fetched |-> {<<DEFAULT_EARLIEST_DATE + 1, DEFAULT_EARLIEST_DATE + 1>>}]}

InitCycle ==
    /\ pc = "cycle"
    /\ index_list \in CycleLists
    /\ config \in [from_date : {D(0 - 3), D(1)}, to_date : {D(2), D(5)}]
    /\ price_settings = config
    /\ today = DEFAULT_EARLIEST_DATE + 3
    /\ \E earlier \in EarlierCycles :
        /\ metadata = earlier.metadata
        /\ out_file = [s \in Symbols |->
                        IF s = "TCS" THEN earlier.file ELSE Absent]
        /\ fetched_ok = [s \in Symbols |->
                        IF s = "TCS" THEN earlier.fetched ELSE {}]
    /\ tmp_file = [s \in Symbols |-> Absent]
    /\ run = 1
    /\ stock_names = <<>>
    /\ metadata_dict = [s \in Symbols |-> NoMetadata]
    /\ from_date = None /\ to_date = None
    /\ sym_i = 0 /\ range_i = 0
    /\ processed_count = 0 /\ error_count = 0
    /\ symbol_log = <<>>
    /\ config_file = ConfigObject(RequiredKeys)
    /\ transformed_list = Absent
    /\ stages = <<>>
    /\ update_log = <<>>
    /\ metadata_file = Absent
    /\ DbIdle
    /\ CalcIdle /\ ChunkIdle /\ MergeIdle

\* main, lines 611-628 and 456-463: the symbols are extracted and
\* fetch_stock_prices_step is called; it loads the metadata the last
\* recompute saved.
CycleBegin ==
    /\ pc = "cycle"
    /\ ~extract_raises(index_list)
    /\ stock_names' = main_stock_names(index_list)
    /\ metadata_dict' = AsMetadataDict(metadata)
    /\ pc' = "step"
    /\ UNCHANGED <<stage_vars, calc_vars, chunk_vars, file_vars, merge_vars,
                   price_settings, today, from_date, to_date, sym_i, range_i,
                   processed_count, error_count, symbol_log>>

\* One iteration: the script exits with status 0 having written a record
\* for every date of the chunk; the merged list is saved (lines 309-319).
ChunkAnswered ==
    /\ IssueFetch
    /\ LET merged == merge_json_data(out_file[symbol],
                                     FullAnswer(current_date, chunk_end_date))
       IN  /\ ~merged.raised
           /\ out_file' = [out_file EXCEPT ![symbol] = JsonList(merged.data)]
    /\ fetched_ok' = [fetched_ok EXCEPT
                        ![symbol] = @ \cup {<<current_date, chunk_end_date>>}]
    /\ Advance
    /\ UNCHANGED <<pc, calc_vars, symbol, start_date, end_date, failed_chunks,
                   tmp_file, merge_vars, step_vars, db_vars, pop_vars,
                   metadata_file, config, config_file, index_list,
                   transformed_list, stages, run>>

\* transform_stock_list.py run with --input and --output (its lines
\* 101-116): the flattened list is saved.
CycleTransform ==
    /\ pc = "step_done"
    /\ transform_exit_status({"--input", "--output"}) = 0
    /\ transformed_list' = flatten_stock_list(index_list)
    /\ pc' = "cycle_transformed"
    /\ UNCHANGED <<fetch_vars, db_vars, pop_vars, metadata_file, config,
                   config_file, index_list, stages, run, fetched_ok>>

\* populate_stock_metadata.main (lines 247-327): the entries of the
\* selected records are recomputed and the metadata saved.
CyclePopulate ==
    /\ pc = "cycle_transformed"
    /\ metadata' = populate_items(DataOf(index_list), metadata, out_file, today)
    /\ pc' = "cycle_populated"
    /\ UNCHANGED <<fetch_vars, db_vars, update_log, metadata_file, config,
                   main_vars>>

\* data_ingest: ingest_stocks on the transformed list (lines 249-268).
CycleIngestStocks ==
    /\ pc = "cycle_populated"
    /\ LET r == IngestStockRows(conn_status, stocks,
                                priority_zero_records(transformed_list))
       IN  /\ ~r.raised
           /\ stocks' = r.table
    /\ batch' = [kind |-> "stocks", stock_id |-> 0,
                 data |-> priority_zero_records(transformed_list)]
    /\ pc' = "cycle_ingested"
    /\ UNCHANGED <<fetch_vars, stock_prices, conn_status, upsert_log, pop_vars,
                   metadata_file, config, main_vars>>

\* main is run a second time, with the same configuration, on the same
\* day: a new process, with its own counters and its own list of commands.
CycleRerun ==
    /\ pc = "cycle_ingested"
    /\ run = 1
    /\ run' = 2
    /\ stock_names' = <<>>
    /\ requests' = <<>>
    /\ symbol_log' = <<>>
    /\ processed_count' = 0 /\ error_count' = 0
    /\ sym_i' = 0 /\ range_i' = 0
    /\ from_date' = None /\ to_date' = None
    /\ pc' = "cycle"
    /\ UNCHANGED <<calc_vars, symbol, start_date, end_date, current_date,
                   failed_chunks, file_vars, merge_vars, price_settings, today,
                   metadata_dict, db_vars, pop_vars, metadata_file, config,
                   config_file, index_list, transformed_list, stages,
                   fetched_ok>>

NextCycle ==
    \/ CycleBegin
    \/ StepNoSymbols
    \/ StepBegin
    \/ SymbolNoValidRange
    \/ SymbolUpToDate
    \/ SymbolFetch
    \/ ChunkProcessError
    \/ ChunkNoFile
    \/ ChunkAnswered
    \/ LoopExit
    \/ NextRange
    \/ SymbolProcessed
    \/ StepEnd
    \/ CycleTransform
    \/ CyclePopulate
    \/ CycleIngestStocks
    \/ CycleRerun

SpecCycle == InitCycle /\ [][NextCycle]_vars

\* ============================================== claims, under SpecCalc
CalcDone == pc = "calc_done"

HasCoverage == fetched_start # None /\ fetched_end # None

\* No two of the ranges share a date.
PairwiseDisjoint(ranges) ==
    \A i, j \in 1 .. Len(ranges) :
        i # j => DatesOf(ranges[i]) \cap DatesOf(ranges[j]) = {}

\* C1: with prior coverage [S,E] and a window [A,B] with A < S and B > E,
\* the result is exactly the left gap (A, S-1 day) followed by the right
\* gap (E+1 day, B).
C1_BothGapsInOrder ==
    (CalcDone /\ HasCoverage
        /\ effective_start < fetched_start /\ effective_end > fetched_end)
    => ranges_to_fetch = << <<effective_start, fetched_start - 1>>,
                            <<fetched_end + 1, effective_end>> >>

C1_Witness ==
    /\ CalcDone /\ HasCoverage
    /\ effective_start < fetched_start /\ effective_end > fetched_end
    /\ fetched_start <= fetched_end
    /\ Len(ranges_to_fetch) = 2

\* C2 as stated: for A <= B and S <= E the ranges are pairwise disjoint and
\* their union is exactly the dates of [A,B] that are not in [S,E], also
\* when the window and the coverage do not overlap.
C2_ExactlyWindowMinusCoverage ==
    (CalcDone /\ HasCoverage
        /\ effective_start <= effective_end /\ fetched_start <= fetched_end)
    => /\ PairwiseDisjoint(ranges_to_fetch)
       /\ Covered(ranges_to_fetch) =
            (effective_start .. effective_end) \ (fetched_start .. fetched_end)

\* The window overlaps the coverage or abuts it.
WindowMeetsCoverage ==
    /\ effective_start <= fetched_end + 1
    /\ effective_end >= fetched_start - 1

\* C2 as amended: for A <= B and S <= E the ranges are pairwise disjoint,
\* hold no date of [S,E] and hold every date of [A,B] that is not in [S,E];
\* their union is exactly that set when the window overlaps or abuts the
\* coverage, and otherwise it also holds the dates that lie between the
\* window and the coverage: it is [min(A,S), max(B,E)] without [S,E].
C2_Amended ==
    (CalcDone /\ HasCoverage
        /\ effective_start <= effective_end /\ fetched_start <= fetched_end)
    => /\ PairwiseDisjoint(ranges_to_fetch)
       /\ Covered(ranges_to_fetch) \cap (fetched_start .. fetched_end) = {}
       /\ (effective_start .. effective_end) \ (fetched_start .. fetched_end)
            \subseteq Covered(ranges_to_fetch)
       /\ Covered(ranges_to_fetch) =
            (Min2(effective_start, fetched_start)
                .. Max2(effective_end, fetched_end))
            \ (fetched_start .. fetched_end)
       /\ WindowMeetsCoverage =>
            Covered(ranges_to_fetch) =
                (effective_start .. effective_end)
                \ (fetched_start .. fetched_end)

C2_Witness ==
    /\ CalcDone /\ HasCoverage
    /\ effective_start <= effective_end /\ fetched_start <= fetched_end
    /\ effective_end < fetched_start - 1
    /\ ranges_to_fetch = << <<effective_start, fetched_start - 1>> >>

\* C3: with no prior coverage (fetched_start or fetched_end absent) the
\* result is exactly one range, the effective window itself.
C3_NoCoverageWholeWindow ==
    (CalcDone /\ ~HasCoverage)
    => ranges_to_fetch = << <<effective_start, effective_end>> >>

C3_Witness ==
    /\ CalcDone
    /\ fetched_start # None /\ fetched_end = None
    /\ effective_end > fetched_start
    /\ Len(ranges_to_fetch) = 1

\* C4 as stated: when effective_start > effective_end,
\* calculate_missing_ranges returns no range, with or without coverage.
C4_ReversedWindowNoRanges ==
    (CalcDone /\ effective_start > effective_end) => ranges_to_fetch = <<>>

\* ============================================= claims, under SpecMerge
\* The collection a file holds when it is one of the accepted shapes.
IsCollection(file) == file.kind \in {"absent", "list", "wrapped"}

\* C9: the merge result is the union of the existing and the new collection
\* with exact duplicates collapsed: a record is in the result iff it is in
\* the existing or in the new collection, no two records of the result have
\* the same key-sorted serialization; an absent existing file is an empty
\* collection, and the bare-array and {"data": [...]} shapes are accepted.
C9_MergeIsDedupedUnion ==
    \A n \in 1 .. Len(merge_log) :
        LET m == merge_log[n]
        IN  (IsCollection(m.existing) /\ IsCollection(m.new))
            => /\ DictsOf(m.result) = DictsOf(m.existing.items) \cup DictsOf(m.new.items)
               /\ \A i, j \in 1 .. Len(m.result) :
                    i # j => json_dumps_sorted(m.result[i]) # json_dumps_sorted(m.result[j])

C9_Witness ==
    /\ Len(merge_log) = 1
    /\ merge_log[1].existing = JsonWrapped(<<Rec(1, 10), Rec(1, 11)>>)
    /\ merge_log[1].new = JsonList(<<RecSwapped(1, 10), Rec(2, 10)>>)
    /\ Len(merge_log[1].result) = 3

\* C10: merging the same new collection a second time changes nothing:
\* merge(merge(X,Y),Y) holds the same records as merge(X,Y), and the file
\* saved by the second fetch+merge of a chunk is the file saved by the first.
C10_MergeIdempotent ==
    \A n \in 2 .. Len(merge_log) :
        (merge_log[n].new = merge_log[n - 1].new)
        => /\ merge_log[n].existing = JsonList(merge_log[n - 1].result)
           /\ DictsOf(merge_log[n].result) = DictsOf(merge_log[n - 1].result)
           /\ Len(merge_log[n].result) = Len(merge_log[n - 1].result)
           /\ pc = "merged" => out_file[symbol] = merge_log[n].existing

C10_Witness ==
    /\ Len(merge_log) = 2
    /\ pc = "merged"
    /\ merge_log[1].existing = JsonList(<<Rec(1, 10)>>)
    /\ merge_log[1].new = JsonList(<<RecSwapped(1, 10), Rec(1, 11)>>)
    /\ merge_log[2].new = merge_log[1].new
    /\ Len(merge_log[2].result) = 2

\* The file as the file of the newly fetched data: a persisted file that is
\* absent is an empty collection, written as [].
AsNewFile(file) == IF file.kind = "absent" THEN JsonList(<<>>) ELSE file

\* C11: merging is commutative in content: for collections X and Y the set
\* of distinct records of merge(X as existing, Y as new) is the set of
\* distinct records of merge(Y as existing, X as new).
C11_MergeCommutesInContent ==
    \A n \in 1 .. Len(merge_log) :
        LET m == merge_log[n]
            swapped == merge_json_data(m.new, AsNewFile(m.existing))
        IN  (IsCollection(m.existing) /\ IsCollection(m.new))
            => /\ ~swapped.raised
               /\ DictsOf(m.result) = DictsOf(swapped.data)

C11_Witness ==
    /\ Len(merge_log) = 1
    /\ merge_log[1].existing = JsonList(<<Rec(1, 10), Rec(1, 11)>>)
    /\ merge_log[1].new = JsonWrapped(<<Rec(2, 10), RecSwapped(1, 10)>>)
    /\ merge_log[1].result = <<RecSwapped(1, 10), Rec(1, 11), Rec(2, 10)>>
    /\ merge_json_data(merge_log[1].new, merge_log[1].existing).data
            = <<Rec(2, 10), Rec(1, 10), Rec(1, 11)>>

\* The persisted file is malformed: no JSON, or JSON of an invalid shape
\* (an object without a "data" key, a value that is no list).
Malformed(file) == file.kind \in {"invalid", "object"}

\* C12: when the persisted collection is malformed (invalid JSON, or a JSON
\* object without a "data" key or another non-list value), merge_json_data
\* does not raise, takes the existing collection as empty and returns the
\* deduplicated new records.
C12_MalformedExistingIsEmpty ==
    /\ (Malformed(out_file[symbol]) /\ IsCollection(tmp_file[symbol]))
            => pc # "raised"
    /\ \A n \in 1 .. Len(merge_log) :
            (Malformed(merge_log[n].existing) /\ IsCollection(merge_log[n].new))
            => merge_log[n].result = Dedup(merge_log[n].new.items)

\* The pairs (i, j) of a logged merge: record i of the existing collection
\* and record j of the new one have the same trade date and differ in a
\* field value.
SameKeyDifferentValues(m) ==
    {p \in (1 .. Len(m.existing.items)) \X (1 .. Len(m.new.items)) :
        /\ TradeDate(m.existing.items[p[1]]) = TradeDate(m.new.items[p[2]])
        /\ AsDict(m.existing.items[p[1]]) # AsDict(m.new.items[p[2]])}

\* C13: deduplication is by whole-record identity, not by natural key: when
\* the existing and the new collection hold records of the same symbol and
\* trade date whose field values differ, both records are in the merged
\* result and in the file written back.
C13_SameKeyDifferentValuesBothKept ==
    \A n \in 1 .. Len(merge_log) :
        LET m == merge_log[n]
        IN  (IsCollection(m.existing) /\ IsCollection(m.new))
            => \A p \in SameKeyDifferentValues(m) :
                /\ AsDict(m.existing.items[p[1]]) \in DictsOf(m.result)
                /\ AsDict(m.new.items[p[2]]) \in DictsOf(m.result)
                /\ (n = Len(merge_log) /\ pc = "merged")
                    => {AsDict(m.existing.items[p[1]]), AsDict(m.new.items[p[2]])}
                            \subseteq DictsOf(LoadData(out_file[symbol]).items)

C13_Witness ==
    /\ pc = "merged"
    /\ Len(merge_log) = 1
    /\ merge_log[1].existing = JsonList(<<Rec(1, 10)>>)
    /\ merge_log[1].new = JsonList(<<Rec(1, 11)>>)
    /\ out_file[symbol] = JsonList(<<Rec(1, 10), Rec(1, 11)>>)

\* C28: for every effective window [A,B] with A <= B and prior coverage
\* [S,E] with S <= E, the union of [S,E] with the ranges returned by
\* calculate_missing_ranges is the one contiguous interval
\* [min(A,S), max(B,E)]: no gap is left between the old coverage and the
\* newly fetched dates, also when window and coverage are disjoint.
C28_UnionIsContiguous ==
    (/\ CalcDone /\ HasCoverage
     /\ effective_start <= effective_end
     /\ fetched_start <= fetched_end)
    => (fetched_start .. fetched_end) \cup Covered(ranges_to_fetch)
        = Min2(effective_start, fetched_start) .. Max2(effective_end, fetched_end)

\* The window lies two days before the coverage: one range is returned,
\* from the window's start up to the day before the coverage.
C28_Witness ==
    /\ CalcDone
    /\ effective_start = DEFAULT_EARLIEST_DATE
    /\ effective_end = DEFAULT_EARLIEST_DATE + 1
    /\ fetched_start = DEFAULT_EARLIEST_DATE + 4
    /\ fetched_end = DEFAULT_EARLIEST_DATE + 5
    /\ ranges_to_fetch = << <<DEFAULT_EARLIEST_DATE, DEFAULT_EARLIEST_DATE + 3>> >>

\* ============================================= claims, under SpecChunk
\* fetch_stock_prices_by_dates has ended, by returning or by an exception.
ChunkLoopEnded == pc \in {"returned", "raised"}

\* The calendar days a fetch command covers, both ends counted.
DaysRequested(req) == parse_date_dmy(req.to_date) - parse_date_dmy(req.from_date) + 1

\* C5: every fetch request covers at most 365 calendar days counted
\* inclusively (chunk_end - chunk_start + 1 <= 365).
C5_ChunkAtMost365Days ==
    \A i \in 1 .. Len(requests) : DaysRequested(requests[i]) <= 365

\* C6: for start_date <= end_date the chunks are requested in chronological
\* order, the first starts at start_date, the last ends at end_date and each
\* starts one day after the previous one ends, so that every date of the
\* range lies in exactly one chunk; for start_date > end_date no fetch is
\* issued.
C6_ChunksPartitionRange ==
    ChunkLoopEnded =>
        /\ start_date > end_date => requests = <<>>
        /\ start_date <= end_date =>
            /\ Len(requests) >= 1
            /\ parse_date_dmy(requests[1].from_date) = start_date
            /\ parse_date_dmy(requests[Len(requests)].to_date) = end_date
            /\ \A i \in 1 .. Len(requests) :
                    parse_date_dmy(requests[i].from_date) <= parse_date_dmy(requests[i].to_date)
            /\ \A i \in 2 .. Len(requests) :
                    parse_date_dmy(requests[i].from_date)
                        = parse_date_dmy(requests[i - 1].to_date) + 1

\* ceil(n / d) for n >= 0, d > 0.
CeilDiv(n, d) == (n + d - 1) \div d

\* C7: a range of N = end_date - start_date + 1 >= 1 calendar days is
\* fetched in exactly ceil(N/365) chunk fetches.
C7_ChunkCountIsCeilNOver365 ==
    (pc = "returned" /\ start_date <= end_date)
    => Len(requests) = CeilDiv(end_date - start_date + 1, 365)

\* C8: when the fetch or the merge of a chunk fails, the fetch of every later
\* chunk of the range is still issued (the last request reaches end_date),
\* and the records the file held before the failure are still in it.
C8_FailedChunkDoesNotStopTheRest ==
    (ChunkLoopEnded /\ failed_chunks # <<>>)
    => /\ parse_date_dmy(requests[Len(requests)].to_date) = end_date
       /\ \A i \in 1 .. Len(failed_chunks) :
            DictsOf(LoadData(failed_chunks[i].before).items)
                \subseteq DictsOf(LoadData(out_file[symbol]).items)

\* ========================================= claims, under SpecReconcile
\* The fetch commands run for a symbol.
RequestsFor(sym) == {i \in 1 .. Len(requests) : requests[i].symbol = sym}

\* The symbols visited so far whose window was reversed.
ReversedVisits ==
    {n \in 1 .. Len(symbol_log) :
        symbol_log[n].effective_start > symbol_log[n].effective_end}

\* C4 as amended: when effective_start > effective_end for a symbol,
\* fetch_stock_prices_step takes it as "nothing to fetch", with or without
\* prior coverage: it skips the symbol before calculate_missing_ranges is
\* called, issues no fetch for it and counts it neither as processed nor as
\* an error. calculate_missing_ranges itself, given such a window and no
\* coverage, returns the one range (effective_start, effective_end), which
\* holds no date, and not an empty list.
C4_Amended ==
    /\ \A n \in ReversedVisits :
        /\ symbol_log[n].outcome = "no_range"
        /\ symbol_log[n].ranges = <<>>
        /\ RequestsFor(symbol_log[n].symbol) = {}
    /\ pc \notin {"step", "calc", "calc_done"} =>
        processed_count + error_count <= Len(symbol_log) - Cardinality(ReversedVisits)
    /\ (CalcDone /\ ~HasCoverage /\ effective_start > effective_end) =>
        /\ ranges_to_fetch = << <<effective_start, effective_end>> >>
        /\ Covered(ranges_to_fetch) = {}

C4_Witness ==
    /\ pc = "step_done"
    /\ Len(symbol_log) = 2
    /\ symbol_log[1].effective_start > symbol_log[1].effective_end
    /\ metadata_dict["TCS"].present
    /\ metadata_dict["TCS"].start_date = D(3)
    /\ metadata_dict["TCS"].end_date = D(3)
    /\ symbol_log[2].outcome = "fetch"
    /\ RequestsFor("INFY") # {}
    /\ RequestsFor("TCS") = {}


\* ============================================ claims, under SpecIngest
\* The upserts made so far that did not raise and have the row's key.
UpsertsOfKey(row) ==
    {n \in 1 .. Len(upsert_log) :
        /\ ~upsert_log[n].raised
        /\ upsert_log[n].stock_id = row.stock_id
        /\ trade_date(upsert_log[n].price_item) = row.trade_date}

\* The greatest element of a non-empty set of numbers.
Last(S) == CHOOSE n \in S : \A m \in S : m <= n

\* C14: after any sequence of upsert_stock_price calls and of whole-file
\* ingests, table stock_prices holds at most one row per (stock, trade_date),
\* that row carries the field values of the most recent upsert of the key,
\* and every key upserted has its row.
C14_OneRowPerKeyLatestValues ==
    /\ \A i, j \in 1 .. Len(stock_prices) :
        (/\ stock_prices[i].stock_id = stock_prices[j].stock_id
         /\ stock_prices[i].trade_date = stock_prices[j].trade_date) => i = j
    /\ \A i \in 1 .. Len(stock_prices) :
        /\ UpsertsOfKey(stock_prices[i]) # {}
        /\ LET last == upsert_log[Last(UpsertsOfKey(stock_prices[i]))]
           IN  stock_prices[i] = RowValues(last.stock_id, last.price_item)
    /\ \A n \in 1 .. Len(upsert_log) :
        ~upsert_log[n].raised =>
            \E i \in 1 .. Len(stock_prices) : n \in UpsertsOfKey(stock_prices[i])

\* A file of two records of one trade date has been ingested twice for one
\* stock: the table holds one row, with the price upserted last.
C14_Witness ==
    /\ Len(upsert_log) = 4
    /\ \A n \in 1 .. 4 : upsert_log[n].stock_id = 1 /\ ~upsert_log[n].raised
    /\ upsert_log[1].price_item = PriceRec("TCS", D(0), 11)
    /\ upsert_log[2].price_item = PriceRec("TCS", D(0), 10)
    /\ upsert_log[3] = upsert_log[1]
    /\ upsert_log[4] = upsert_log[2]
    /\ Len(stock_prices) = 1
    /\ stock_prices[1].close_price = 10


\* ============================================ claims, under SpecDbMain
\* C25: in the database ingest a failed upsert of one record does not
\* prevent the upsert of the records that follow it in the same batch:
\* after ingest_stocks or ingest_prices_for_symbol every record of the
\* batch whose own upsert can succeed (no NULL in a NOT NULL column) has
\* its row in the table.
C25_FailedUpsertDoesNotBlockBatch ==
    /\ batch.kind = "stocks" =>
        \A i \in 1 .. Len(batch.data) :
            batch.data[i].symbol # NoneText
                => StockConflicts(stocks, batch.data[i].symbol) # {}
    /\ batch.kind = "prices" =>
        \A i \in 1 .. Len(batch.data) :
            ~ViolatesNotNull(RowValues(batch.stock_id, batch.data[i]))
                => Conflicts(stock_prices,
                             RowValues(batch.stock_id, batch.data[i])) # {}

\* ========================================== claims, under SpecPopulate
\* The entry of the call's symbol in the list the call left.
EntryAfter(call) == call.after[find_symbol_in_metadata(call.symbol, call.after)]

\* The date a string holds, None when it holds none.
DateIn(s) == IF strptime_ymd(s).raised = "no" THEN strptime_ymd(s).value ELSE None

\* max(listing_date, floor date), a missing or malformed listing_date being
\* the floor date.
ListedOrFloor(call) ==
    IF DateIn(call.listing_date_str) = None
    THEN DEFAULT_EARLIEST_DATE
    ELSE Max2(DateIn(call.listing_date_str), DEFAULT_EARLIEST_DATE)

C16_EndDate ==
    \A n \in 1 .. Len(update_log) :
        LET call == update_log[n]
        IN  IF DateIn(call.latest_stock_date) # None
            THEN EntryAfter(call).end_date = call.latest_stock_date
            ELSE DateIn(EntryAfter(call).end_date) = None

\* C17: after any sequence of update_or_create_symbol_entry calls on a list
\* that starts with no symbol twice, the list holds exactly one entry for
\* every symbol upserted, no entry has been removed, and each call has
\* changed only the entry of its own symbol: an existing entry is updated
\* at its place, a new one is appended.
C17_OneEntryPerSymbol ==
    /\ \A i, j \in 1 .. Len(metadata) :
        metadata[i].symbol = metadata[j].symbol => i = j
    /\ \A n \in 1 .. Len(update_log) :
        LET call == update_log[n]
            was == find_symbol_in_metadata(call.symbol, call.before)
        IN  /\ \E i \in 1 .. Len(metadata) : metadata[i].symbol = call.symbol
            /\ Len(call.after) = Len(call.before) + (IF was = 0 THEN 1 ELSE 0)
            /\ \A i \in 1 .. Len(call.before) :
                /\ call.after[i].symbol = call.before[i].symbol
                /\ call.before[i].symbol # call.symbol
                    => call.after[i] = call.before[i]
            /\ was = 0 => call.after[Len(call.after)].symbol = call.symbol
            /\ n > 1 => call.before = update_log[n - 1].after
            /\ n = Len(update_log) => metadata = call.after

\* An entry is appended, then updated at its place, next to an older entry.
C17_Witness ==
    /\ Len(update_log) = 2
    /\ update_log[1].before = <<OldEntry("INFY")>>
    /\ update_log[1].symbol = "TCS" /\ update_log[2].symbol = "TCS"
    /\ Len(metadata) = 2
    /\ metadata[1] = OldEntry("INFY")
    /\ metadata[2].symbol = "TCS"
    /\ update_log[1].after[2] # metadata[2]


\* ============================================== claims, under SpecStep
\* C18: get_date_or_default never propagates a parse failure: for every
\* date string (valid, malformed, empty or absent) and each fallback the
\* pipeline passes (the floor date for from_date and listing_date, today
\* for to_date) it returns a date and raises nothing, so that a malformed or
\* missing date of the configuration or of the metadata never aborts
\* fetch_stock_prices_step.
C18_DateParseNeverPropagates ==
    /\ pc # "step_raised"
    /\ AtSymbol =>
        get_date_or_default(md_entry.listing_date,
                            format_date_ymd(DEFAULT_EARLIEST_DATE)).raised = "no"


\* The symbols the loop passed over with "continue": nothing to fetch
\* (reversed window) or already up to date.
SkippedCount ==
    Cardinality({i \in 1..Len(symbol_log) :
                    symbol_log[i].outcome \in {"no_range", "up_to_date"}})

\* C24: in fetch_stock_prices_step the failure of one symbol does not block
\* the others: the loop visits every symbol of the list in order, also the
\* ones after a symbol that failed, and when the step ends
\* processed_count + error_count + (symbols skipped as nothing-to-fetch or
\* up to date) is the number of symbols.
C24_EverySymbolCounted ==
    /\ pc = "symbol"
        => /\ Len(symbol_log) = sym_i - 1
           /\ processed_count + error_count + SkippedCount = sym_i - 1
    /\ pc = "step_done"
        => /\ Len(symbol_log) = Len(stock_names)
           /\ \A i \in 1..Len(stock_names) : symbol_log[i].symbol = stock_names[i]
           /\ processed_count + error_count + SkippedCount = Len(stock_names)

\* The first of two symbols failed and the second one was fetched.
C24_Witness ==
    /\ pc = "step_done"
    /\ Len(stock_names) = 2
    /\ error_count = 1
    /\ processed_count = 1
    /\ symbol_log[1].outcome \in {"error", "fetch"}
    /\ symbol_log[2].outcome = "fetch"
    /\ \E i \in 1..Len(requests) : requests[i].symbol = stock_names[2]

\* ============================================== claims, under SpecLoad
\* The file holds a JSON list of objects.
ListOfObjects(file) ==
    /\ file.kind = "list"
    /\ \A i \in 1 .. Len(file.items) : file.items[i].is_dict

\* C19: load_symbol_metadata never raises: for a missing file, a file of
\* invalid JSON and a file whose JSON is not a list of objects it returns an
\* empty mapping; for a well-formed file it returns one mapping entry per
\* symbol of the file.
C19_LoadMetadataNeverRaises ==
    /\ pc # "load_raised"
    /\ pc = "loaded" =>
        \A s \in Symbols :
            metadata_dict[s].present
                <=> /\ ListOfObjects(metadata_file)
                    /\ \E i \in 1 .. Len(metadata_file.items) :
                            metadata_file.items[i].symbol = s


\* ============================================== claims, under SpecMain
\* fetch_stock_prices_step has resolved the requested window.
WindowResolved == from_date # None /\ to_date # None

\* C20: in a run of main whose configuration has no from_date the requested
\* fetch window starts at the floor date 2015-01-01, and when it has no
\* to_date the window ends at today.
C20_DefaultWindow ==
    WindowResolved =>
        /\ config.from_date = NoneStr => from_date = DEFAULT_EARLIEST_DATE
        /\ config.to_date = NoneStr => to_date = today

\* C20 as amended: in a run of main whose configuration has no from_date the
\* requested fetch window starts 365 days before today, the date that
\* dynamic_date_defaults writes into the configuration, and when it has no
\* to_date the window ends at today; the floor date 2015-01-01 is the start
\* only for a from_date that is there and is no date.
C20_Amended ==
    WindowResolved =>
        /\ config.from_date = NoneStr => from_date = today - 365
        /\ config.to_date = NoneStr => to_date = today
        /\ config.from_date = BadStr => from_date = DEFAULT_EARLIEST_DATE

\* A run without from_date and to_date has fetched the window of the last
\* 365 days for a symbol without metadata.
C20_Witness ==
    /\ pc = "step_done"
    /\ config = NoConfigDates
    /\ from_date = today - 365
    /\ to_date = today
    /\ from_date > DEFAULT_EARLIEST_DATE
    /\ Len(requests) >= 1
    /\ requests[1].from_date = format_date_dmy(today - 365)
    /\ requests[Len(requests)].to_date = format_date_dmy(today)


\* ========================================== claims, under SpecPipeline
\* The config file is missing, is no JSON or lacks a required key.
ConfigError ==
    \/ config_file.kind # "object"
    \/ \E key \in RequiredKeys : key \notin config_file.keys

\* C23: a configuration error (config file missing or no valid JSON, or
\* one of index_name, output_paths, price_fetch_settings and the four
\* output_paths keys missing) aborts main before any index-list fetch or
\* price fetch is issued and before any persisted file is written.
C23_ConfigErrorAbortsBeforeFetch ==
    ConfigError =>
        /\ pc \in {"main_start", "main_raised"}
        /\ stages = <<>>
        /\ requests = <<>>
        /\ stock_names = <<>>
        /\ FilesIdle
        /\ transformed_list = Absent

\* main has ended on a configuration that lacks output_paths.stock_names.
C23_Witness ==
    /\ pc = "main_raised"
    /\ config_file = ConfigObject(RequiredKeys \ {"output_paths.stock_names"})
    /\ stages = <<>>

\* The stages started so far are the first ones of the order of main.
StagesInOrder ==
    /\ Len(stages) <= Len(StageOrder)
    /\ \A i \in 1 .. Len(stages) : stages[i].stage = StageOrder[i]

\* The stage started last is the only one whose command may have failed,
\* and the price fetch is under way only as the last stage started.
NoStageAfterFailedStageCommand ==
    /\ \A i \in 1 .. (Len(stages) - 1) : ~stages[i].failed
    /\ pc \in {"step", "symbol", "loop", "returned", "raised", "step_raised"}
        => /\ stages # <<>>
           /\ stages[Len(stages)].stage = "fetch_stock_prices"
    /\ requests # <<>> => Len(stages) >= 3
    /\ stock_names # <<>> => Len(stages) >= 2

\* A chunk fetch command of the per-symbol stage exited with an error.
ChunkCommandFailed ==
    \E i \in 1 .. Len(failed_chunks) : failed_chunks[i].why = "exit"

\* C22: a run of main executes its stages strictly in the order fetch index
\* list, extract priority-0 symbols, per-symbol fetch, transform list,
\* recompute metadata, DB ingest; no stage starts before the previous one
\* has finished, and no later stage runs when the command of an earlier
\* stage failed, the chunk fetch commands of the per-symbol stage
\* included.
C22_StagesInOrderNoneAfterFailure ==
    /\ StagesInOrder
    /\ NoStageAfterFailedStageCommand
    /\ ChunkCommandFailed => Len(stages) <= 3

\* C22 as amended: the stages run in that order, none starts before the
\* previous one has finished, and none runs after the command of the
\* index-list fetch or of the transform failed; a failed chunk fetch
\* command of the per-symbol stage does not end the run.
C22_Amended ==
    /\ StagesInOrder
    /\ NoStageAfterFailedStageCommand

\* A chunk fetch command failed and the run went on to the transform,
\* whose command failed and ended the run.
C22_Witness ==
    /\ pc = "main_raised"
    /\ Len(stages) = 4
    /\ stages[4] = [stage |-> "transform_stock_list", failed |-> TRUE]
    /\ ChunkCommandFailed
    /\ processed_count = 1

\* C27: every run of main that completes fetch_stock_prices_step goes on
\* to invoke the metadata recompute (populate_stock_metadata) and then the
\* DB ingest: when main has ended after the step returned, both stages
\* have been started.
C27_RecomputeAndIngestFollowFetch ==
    (/\ pc = "main_raised"
     /\ \E i \in 1 .. Len(stages) : stages[i].stage = "transform_stock_list")
    => /\ \E i \in 1 .. Len(stages) : stages[i].stage = "populate_stock_metadata"
       /\ \E i \in 1 .. Len(stages) : stages[i].stage = "db_ingest"

\* The listing dates the index list gives for the symbol.
IndexListingDates(sym) ==
    {strptime_ymd(DataOf(index_list)[k].meta).value :
        k \in {j \in 1 .. Len(DataOf(index_list)) :
                /\ DataOf(index_list)[j].symbol = sym
                /\ strptime_ymd(DataOf(index_list)[j].meta).raised = "no"}}

\* C21: no fetch request issued for a symbol covers a date earlier than
\* the symbol's listing date as given by the index list; for a brand-new
\* symbol with listing date L later than from_date the first date
\* requested is L.
C21_NoFetchBeforeListing ==
    \A i \in 1 .. Len(requests) :
        \A L \in IndexListingDates(requests[i].symbol) :
            parse_date_dmy(requests[i].from_date) >= L


\* ============================================= claims, under SpecCycle
\* The metadata recompute that follows the fetch cycle has run.
Recomputed == pc \in {"cycle_populated", "cycle_ingested"}

\* The dates of the chunks of the symbol that were fetched and merged.
FetchedDates(sym) ==
    UNION {r[1] .. r[2] : r \in fetched_ok[sym]}

\* The dates inside the coverage an entry records.
RecordedDates(entry) ==
    IF /\ Truthy(entry.start_date) /\ Truthy(entry.end_date)
       /\ strptime_ymd(entry.start_date).raised = "no"
       /\ strptime_ymd(entry.end_date).raised = "no"
    THEN strptime_ymd(entry.start_date).value .. strptime_ymd(entry.end_date).value
    ELSE {}

\* C26: after the metadata recompute that follows a fetch cycle, every date
\* inside a symbol's recorded [start_date, end_date] was covered by a chunk
\* fetch of the symbol that succeeded, also when some chunks failed; a
\* symbol for which no fetch ever succeeded is recorded with no coverage.
C26_CoverageOnlyOfFetchedDates ==
    Recomputed =>
        \A i \in 1 .. Len(metadata) :
            RecordedDates(metadata[i]) \subseteq FetchedDates(metadata[i].symbol)

\* C29: when a run of main has completed with every fetch succeeding and
\* answered with a record for every requested date, and the metadata
\* recompute has run, a second run with the same configuration and the
\* same today issues no fetch request, for every configured from_date and
\* every listing date.
C29_SecondRunFetchesNothing ==
    (run = 2 /\ failed_chunks = <<>>) => requests = <<>>

\* The symbols of the records of the index list.
IndexSymbols ==
    {DataOf(index_list)[i].symbol : i \in 1 .. Len(DataOf(index_list))}

\* C30: every stage selects the same symbols from the index list: a symbol
\* is fetched by main if and only if the recompute gives it a metadata
\* entry, if and only if it is upserted into table stocks; this holds for
\* a record without priority field too.
C30_SameSymbolsInEveryStage ==
    pc = "cycle_ingested" =>
        \A sym \in IndexSymbols :
            /\ (\E i \in 1 .. Len(stock_names) : stock_names[i] = sym)
                <=> find_symbol_in_metadata(sym, metadata) # 0
            /\ find_symbol_in_metadata(sym, metadata) # 0
                <=> StockConflicts(stocks, sym) # {}

====
